---- MODULE Spec2Model ----
(***************************************************************************)
(* Model of the execution layer of the Celsius trading engine:             *)
(*   - CircuitBreaker and RiskManager        (src/src/execution/risk.rs)    *)
(*   - PositionDatabase, the SQLite ledger   (src/src/execution/persistence.rs) *)
(*   - PriceCache, the market questions and the weather client             *)
(*                                            (src/src/data)                *)
(*   - PaperTradingSimulator           (src/src/execution/simulator.rs)    *)
(*   - WeatherEdgeStrategy           (src/src/strategies/weather_edge.rs)  *)
(* Money amounts are whole dollars, fractions are whole percents.          *)
(* Option<T> is a tuple: None is <<>> and Some(x) is <<x>>.                *)
(***************************************************************************)
EXTENDS Integers, Sequences, FiniteSets, TLC

VARIABLES
    triggered,               \* CircuitBreaker.triggered
    reason,                  \* CircuitBreaker.reason : Option<CircuitBreakerReason>
    trigger_time,            \* CircuitBreaker.trigger_time : Option<SystemTime>
    now,                     \* the wall clock, in seconds
    rpc_healthy,             \* health of the primary and the secondary RPC endpoint
    positions,               \* table positions, rows in id order
    orders,                  \* table orders
    circuit_breaker_events,  \* table circuit_breaker_events
    emergency_exits,         \* table emergency_exits
    op,                      \* the operation that ran last
    arg,                     \* what it was called with: trigger's reason,
                             \* validate_trade's signal, balance and failing query,
                             \* recover_from_crash's failing read
    ret,                     \* what it returned
    queries,                 \* the ledger queries the last validate_trade or
                             \* recover_from_crash issued
    cache,                   \* PriceCache.cache : key -> CachedPrice
    instant,                 \* the monotonic clock (Instant::now), in milliseconds
    pc,                      \* where each thread stands: in PriceCache::get, the
                             \* key it is about to evict; in the trading flow,
                             \* the signal it validated and is about to book
    sim_balance,             \* PaperTradingSimulator.balance of each simulator
    calls                    \* the calls each simulator has served, with results

breaker == <<triggered, reason, trigger_time>>
tables == <<positions, orders, circuit_breaker_events, emergency_exits>>
cachesim == <<cache, instant, pc, sim_balance, calls>>
riskstate == <<triggered, reason, trigger_time, now, rpc_healthy, positions, orders,
               circuit_breaker_events, emergency_exits, queries>>
vars == <<triggered, reason, trigger_time, now, rpc_healthy, positions, orders,
          circuit_breaker_events, emergency_exits, op, arg, ret, queries,
          cache, instant, pc, sim_balance, calls>>

(***************************************************************************)
(* Bounds of the model.                                                    *)
(***************************************************************************)
MaxEvents == 1
MaxTicks == 2
ClockStep == 1800
MaxPositions == 2
MaxExits == 1
MaxCalls == 3

None == <<>>
Some(x) == <<x>>
NoArg == [kind |-> "none", v |-> 0]
Unit == [kind |-> "Unit", v |-> <<>>]
Ok(x) == [kind |-> "Ok", v |-> x]
Err(x) == [kind |-> "Err", v |-> x]

(***************************************************************************)
(* CircuitBreakerReason and its Display form.                              *)
(***************************************************************************)
DailyLoss(usd) == [kind |-> "DailyLoss", v |-> usd]
Drawdown(pct) == [kind |-> "Drawdown", v |-> pct]
FillRate(pct) == [kind |-> "FillRate", v |-> pct]
Latency(secs) == [kind |-> "Latency", v |-> secs]
ApiErrors(count) == [kind |-> "ApiErrors", v |-> count]
LeggedPositionStuck == [kind |-> "LeggedPositionStuck", v |-> 0]
RpcFailure == [kind |-> "RpcFailure", v |-> 0]

Reasons ==
    {DailyLoss(150), Drawdown(25), FillRate(50), Latency(5), ApiErrors(10),
     LeggedPositionStuck, RpcFailure}

\* impl Display for CircuitBreakerReason; a Drawdown or FillRate of p percent
\* is the fraction p/100, printed as dd * 100.0 with one decimal.
Display(r) ==
    CASE r.kind = "DailyLoss" -> "DailyLoss($" \o ToString(r.v) \o ".00)"
      [] r.kind = "Drawdown" -> "Drawdown(" \o ToString(r.v) \o ".0%)"
      [] r.kind = "FillRate" -> "FillRate(" \o ToString(r.v) \o ".0%)"
      [] r.kind = "Latency" -> "Latency(" \o ToString(r.v) \o "s)"
      [] r.kind = "ApiErrors" -> "ApiErrors(" \o ToString(r.v) \o ")"
      [] r.kind = "LeggedPositionStuck" -> "LeggedPositionStuck"
      [] r.kind = "RpcFailure" -> "RpcFailure"

(***************************************************************************)
(* PositionDatabase: the two append-only logs.                             *)
(***************************************************************************)
\* INSERT INTO circuit_breaker_events (reason, triggered_at, notes)
EventRow(reason_text, notes) ==
    [id |-> Len(circuit_breaker_events) + 1, reason |-> reason_text,
     triggered_at |-> now, reset_at |-> None, notes |-> notes]

log_circuit_breaker_event(reason_text, notes) ==
    Append(circuit_breaker_events, EventRow(reason_text, notes))

\* log_emergency_exit(&self, position_id, reason, realized_loss)
LogEmergencyExit(position_id, reason_text, realized_loss, db_ok) ==
    /\ Len(emergency_exits) < MaxExits
    /\ op' = "log_emergency_exit"
    /\ arg' = NoArg
    /\ IF db_ok
       THEN /\ emergency_exits' =
                   Append(emergency_exits,
                          [id |-> Len(emergency_exits) + 1, position_id |-> position_id,
                           reason |-> reason_text, realized_loss |-> realized_loss,
                           exited_at |-> now])
            /\ ret' = Ok(<<>>)
       ELSE /\ UNCHANGED emergency_exits
            /\ ret' = Err("DatabaseError")
    /\ UNCHANGED <<triggered, reason, trigger_time, now, rpc_healthy, positions,
                   orders, circuit_breaker_events, queries>>
    /\ UNCHANGED cachesim

(***************************************************************************)
(* PositionDatabase: the positions table and its aggregate queries.        *)
(* market_id, which LIKE matches, is a sequence of characters.             *)
(***************************************************************************)
Seoul == <<"S", "e", "o", "u", "l">>
London == <<"L", "o", "n", "d", "o", "n">>
Cities == {Seoul, London}

MarketSeoul == <<"s", "e", "o", "u", "l", "-", "1">>
MarketHex == <<"0", "x", "a", "1">>
Markets == {MarketSeoul, MarketHex}

\* SQLite folds ASCII upper case to lower case when it evaluates LIKE
LowerChar(c) ==
    CASE c = "S" -> "s"
      [] c = "L" -> "l"
      [] OTHER -> c

Lower(s) == [i \in DOMAIN s |-> LowerChar(s[i])]

\* text LIKE '%' || pattern || '%'
Like(text, pattern) ==
    \E i \in 0..(Len(text) - Len(pattern)) :
        SubSeq(Lower(text), i + 1, i + Len(pattern)) = Lower(pattern)

\* Utc::now().format("%Y-%m-%d"): the UTC day number of an instant
DateOf(t) == t \div 86400

\* DateTime::to_rfc3339: the text "<date>T<time of day>+00:00", as its two parts
to_rfc3339(t) == [date |-> t \div 86400, time |-> t % 86400]

\* DateTime::parse_from_rfc3339(text).unwrap().with_timezone(&Utc)
parse_from_rfc3339(text) == text.date * 86400 + text.time

\* DATE(opened_at): the date part of the stored text
DATE(text) == text.date

\* the order of two stored timestamps under ORDER BY, which compares the texts
TextLeq(a, b) == a.date < b.date \/ (a.date = b.date /\ a.time <= b.time)

\* insert_position: side_str, the text stored for an Option<Side>
side_str(side) ==
    IF side = None THEN None
    ELSE IF side[1] = "Yes" THEN Some("YES") ELSE Some("NO")

\* a reader of the side column that takes every stored text for YES
ParseSideAlwaysYes(text) ==
    IF text = None THEN None ELSE Some("Yes")

\* get_open_positions: the Option<Side> read back from the stored text
ParseSide(text) ==
    IF text = None THEN None
    ELSE IF text[1] = "YES" THEN Some("Yes") ELSE Some("No")

Today == DateOf(now)

RECURSIVE SumPnl(_)
\* SUM(COALESCE(pnl, 0)) over the rows whose indexes are in S
SumPnl(S) ==
    IF S = {} THEN 0
    ELSE LET i == CHOOSE j \in S : TRUE
             p == IF positions[i].pnl = None THEN 0 ELSE positions[i].pnl[1]
         IN p + SumPnl(S \ {i})

MaxOf(S) == CHOOSE x \in S : \A y \in S : y <= x

\* an INSERT whose id is one more than the number of open rows, so that the
\* id of a closed row is handed out again
PositionRowReusesId(pos) ==
    [id |-> Cardinality({i \in DOMAIN positions : positions[i].status = "open"}) + 1,
     market_id |-> pos.market_id,
     strategy |-> pos.strategy, side |-> side_str(pos.side),
     yes_shares |-> pos.yes_shares, no_shares |-> pos.no_shares,
     entry_price |-> pos.entry_price, cost |-> pos.cost,
     opened_at |-> to_rfc3339(pos.opened_at), closed_at |-> None, pnl |-> None,
     status |-> pos.status]

\* INSERT INTO positions (...): closed_at and pnl are not among the columns
PositionRow(pos) ==
    [id |-> Len(positions) + 1, market_id |-> pos.market_id,
     strategy |-> pos.strategy, side |-> side_str(pos.side),
     yes_shares |-> pos.yes_shares, no_shares |-> pos.no_shares,
     entry_price |-> pos.entry_price, cost |-> pos.cost,
     opened_at |-> to_rfc3339(pos.opened_at), closed_at |-> None, pnl |-> None,
     status |-> pos.status]

\* insert_position that also books a pending order for the position
InsertPositionBooksOrder(pos, db_ok) ==
    /\ Len(positions) < MaxPositions
    /\ op' = "insert_position"
    /\ arg' = NoArg
    /\ IF db_ok
       THEN /\ positions' = Append(positions, PositionRow(pos))
            /\ orders' = Append(orders, [id |-> Len(orders) + 1,
                                         market_id |-> pos.market_id,
                                         filled_at |-> None, status |-> "pending"])
            /\ ret' = Ok(PositionRow(pos).id)
       ELSE /\ UNCHANGED <<positions, orders>>
            /\ ret' = Err("DatabaseError")
    /\ UNCHANGED <<breaker, now, rpc_healthy, circuit_breaker_events,
                   emergency_exits, queries>>
    /\ UNCHANGED cachesim

\* insert_position(&self, pos); db_ok is whether the INSERT succeeds
InsertPosition(pos, db_ok) ==
    /\ Len(positions) < MaxPositions
    /\ op' = "insert_position"
    /\ arg' = NoArg
    /\ IF db_ok
       THEN /\ positions' = Append(positions, PositionRow(pos))
            /\ ret' = Ok(PositionRow(pos).id)
       ELSE /\ UNCHANGED positions
            /\ ret' = Err("DatabaseError")
    /\ UNCHANGED <<breaker, now, rpc_healthy, orders, circuit_breaker_events,
                   emergency_exits, queries>>
    /\ UNCHANGED cachesim

\* update_position_status(&self, id, status, pnl): UPDATE ... WHERE id = ?4
UpdatePositionStatus(id, status, pnl, db_ok) ==
    /\ op' = "update_position_status"
    /\ arg' = NoArg
    /\ IF db_ok
       THEN /\ positions' =
                   [i \in DOMAIN positions |->
                       IF positions[i].id = id
                       THEN [positions[i] EXCEPT !.status = status,
                                                 !.closed_at = Some(to_rfc3339(now)),
                                                 !.pnl = pnl]
                       ELSE positions[i]]
            /\ ret' = Ok(<<>>)
       ELSE /\ UNCHANGED positions
            /\ ret' = Err("DatabaseError")
    /\ UNCHANGED <<breaker, now, rpc_healthy, orders, circuit_breaker_events,
                   emergency_exits, queries>>
    /\ UNCHANGED cachesim

\* update_position_shares(&self, id, yes_shares, no_shares)
UpdatePositionShares(id, yes_shares, no_shares, db_ok) ==
    /\ op' = "update_position_shares"
    /\ arg' = NoArg
    /\ IF db_ok
       THEN /\ positions' =
                   [i \in DOMAIN positions |->
                       IF positions[i].id = id
                       THEN [positions[i] EXCEPT !.yes_shares = yes_shares,
                                                 !.no_shares = no_shares]
                       ELSE positions[i]]
            /\ ret' = Ok(<<>>)
       ELSE /\ UNCHANGED positions
            /\ ret' = Err("DatabaseError")
    /\ UNCHANGED <<breaker, now, rpc_healthy, orders, circuit_breaker_events,
                   emergency_exits, queries>>
    /\ UNCHANGED cachesim

\* get_open_positions: the Position built from a row
PositionOfRow(row) ==
    [id |-> Some(row.id), market_id |-> row.market_id, strategy |-> row.strategy,
     side |-> ParseSide(row.side),
     yes_shares |-> row.yes_shares, no_shares |-> row.no_shares,
     entry_price |-> row.entry_price, cost |-> row.cost,
     opened_at |-> parse_from_rfc3339(row.opened_at),
     closed_at |-> IF row.closed_at = None THEN None
                   ELSE Some(parse_from_rfc3339(row.closed_at[1])),
     pnl |-> row.pnl, status |-> row.status]

IsOpen(row) == row.status = "open"

\* SELECT ... FROM positions WHERE status = 'open', the rows in rowid order
get_open_positions ==
    LET rows == SelectSeq(positions, IsOpen)
    IN [i \in DOMAIN rows |-> PositionOfRow(rows[i])]

IsPending(row) == row.status = "pending"

\* SELECT id, market_id FROM orders WHERE status = 'pending'
get_pending_orders ==
    LET rows == SelectSeq(orders, IsPending)
    IN [i \in DOMAIN rows |-> <<rows[i].id, rows[i].market_id>>]

\* get_open_positions(&self); db_ok is whether the SELECT succeeds
GetOpenPositions(db_ok) ==
    /\ op' = "get_open_positions"
    /\ arg' = NoArg
    /\ ret' = IF db_ok THEN Ok(get_open_positions) ELSE Err("DatabaseError")
    /\ UNCHANGED <<breaker, now, rpc_healthy, tables, queries>>
    /\ UNCHANGED cachesim

\* get_pending_orders(&self); db_ok is whether the SELECT succeeds
GetPendingOrders(db_ok) ==
    /\ op' = "get_pending_orders"
    /\ arg' = NoArg
    /\ ret' = IF db_ok THEN Ok(get_pending_orders) ELSE Err("DatabaseError")
    /\ UNCHANGED <<breaker, now, rpc_healthy, tables, queries>>
    /\ UNCHANGED cachesim

\* mark_order_filled(&self, id): UPDATE orders SET status = 'filled',
\* filled_at = now WHERE id = ?2; an id that matches no row is no error
MarkOrderFilled(id, db_ok) ==
    /\ op' = "mark_order_filled"
    /\ arg' = [id |-> id]
    /\ IF db_ok
       THEN /\ orders' = [i \in DOMAIN orders |->
                             IF orders[i].id = id
                             THEN [orders[i] EXCEPT !.status = "filled",
                                                    !.filled_at = Some(to_rfc3339(now))]
                             ELSE orders[i]]
            /\ ret' = Ok(<<>>)
       ELSE /\ UNCHANGED orders
            /\ ret' = Err("DatabaseError")
    /\ UNCHANGED <<breaker, now, rpc_healthy, positions, circuit_breaker_events,
                   emergency_exits, queries>>
    /\ UNCHANGED cachesim

\* recover_from_crash that closes the open positions it finds
RecoverFromCrashClosesPositions(fail_at) ==
    /\ op' = "recover_from_crash"
    /\ arg' = [fail_at |-> fail_at]
    /\ ret' = IF fail_at = 0 THEN Ok(<<>>) ELSE Err("DatabaseError")
    /\ queries' = IF fail_at = 1 THEN <<"get_open_positions">>
                  ELSE <<"get_open_positions", "get_pending_orders">>
    /\ positions' = IF fail_at = 1 THEN positions
                    ELSE [i \in DOMAIN positions |->
                             IF positions[i].status = "open"
                             THEN [positions[i] EXCEPT !.status = "closed"]
                             ELSE positions[i]]
    /\ UNCHANGED <<breaker, now, rpc_healthy, orders, circuit_breaker_events,
                   emergency_exits>>
    /\ UNCHANGED cachesim

\* recover_from_crash(db); fail_at is the number of the ledger read that
\* returns an error (0: none does).  It reads the open positions, then the
\* pending orders, logs what it found and writes nothing.
RecoverFromCrash(fail_at) ==
    /\ op' = "recover_from_crash"
    /\ arg' = [fail_at |-> fail_at]
    /\ ret' = IF fail_at = 0 THEN Ok(<<>>) ELSE Err("DatabaseError")
    /\ queries' = IF fail_at = 1 THEN <<"get_open_positions">>
                  ELSE <<"get_open_positions", "get_pending_orders">>
    /\ UNCHANGED <<breaker, now, rpc_healthy, tables>>
    /\ UNCHANGED cachesim

\* the count of open positions with the date filter of the daily queries
count_open_positions_today ==
    Cardinality({i \in DOMAIN positions :
        /\ positions[i].status = "open"
        /\ DATE(positions[i].opened_at) = Today})

\* SELECT COUNT(*) FROM positions WHERE status = 'open'
count_open_positions ==
    Cardinality({i \in DOMAIN positions : positions[i].status = "open"})

\* SELECT COUNT(*) ... WHERE market_id LIKE %city% AND DATE(opened_at) = today
\*                        AND status = 'open'
count_positions_for_city_today(city) ==
    Cardinality({i \in DOMAIN positions :
        /\ Like(positions[i].market_id, city)
        /\ DATE(positions[i].opened_at) = Today
        /\ positions[i].status = "open"})

\* SELECT COUNT(*) FROM positions WHERE DATE(opened_at) = today
count_trades_today ==
    Cardinality({i \in DOMAIN positions : DATE(positions[i].opened_at) = Today})

\* SELECT SUM(COALESCE(pnl, 0)) ... WHERE DATE(opened_at) = today; NULL is 0.0
get_daily_pnl ==
    SumPnl({i \in DOMAIN positions : DATE(positions[i].opened_at) = Today})

\* get_peak_equity with a window that ends at the current row (ROWS instead of
\* the default RANGE), rows of equal opened_at taken in id order
get_peak_equity_by_rows ==
    LET realized == {i \in DOMAIN positions : positions[i].pnl # None}
        before(j, i) ==
            \/ ~TextLeq(positions[i].opened_at, positions[j].opened_at)
            \/ (positions[j].opened_at = positions[i].opened_at /\ j <= i)
        cumulative(i) == SumPnl({j \in realized : before(j, i)})
    IN IF realized = {} THEN 0 ELSE MaxOf({cumulative(i) : i \in realized})

\* SELECT MAX(cumulative_pnl) over SUM(...) OVER (ORDER BY opened_at) of the rows
\* WHERE pnl IS NOT NULL; the window of a row holds its peers; NULL is 0.0
get_peak_equity ==
    LET realized == {i \in DOMAIN positions : positions[i].pnl # None}
        cumulative(i) ==
            SumPnl({j \in realized : TextLeq(positions[j].opened_at, positions[i].opened_at)})
    IN IF realized = {} THEN 0 ELSE MaxOf({cumulative(i) : i \in realized})

(***************************************************************************)
(* RiskManager.  RiskConfig, as loaded from the [risk] table of config.toml *)
(***************************************************************************)
max_position_size_usd == 200
max_position_pct == 10
max_open_positions == 2
max_daily_trades == 2
max_daily_loss_usd == 100
max_drawdown_pct == 20
max_positions_per_city_per_day == 1
EdgeSanityPct == 30

ValidationError(kind, payload) == [kind |-> kind, v |-> payload]

\* (peak - current_balance) / peak > max_drawdown_pct in f64: 0/0 is NaN, which
\* compares false; x/0 with x > 0 is +inf; a negative peak gives a quotient <= 0
DrawdownOver(peak, current_balance) ==
    IF peak > 0 THEN (peak - current_balance) * 100 > max_drawdown_pct * peak
    ELSE IF peak = 0 THEN peak - current_balance > 0
    ELSE FALSE

\* the value of drawdown carried by DrawdownExceeded, as <<numerator, denominator>>
DrawdownOf(peak, current_balance) == <<peak - current_balance, peak>>

FMax(a, b) == IF a >= b THEN a ELSE b

\* validate_trade with the absolute size cap tested before the ledger is read
validate_trade_size_first(signal, current_balance, fail_at) ==
    LET q1 == <<"count_open_positions">>
        q2 == Append(q1, "count_trades_today")
        q3 == Append(q2, "get_daily_pnl")
        q4 == Append(q3, "get_peak_equity")
        peak == FMax(get_peak_equity, current_balance)
        R(r, q) == [ret |-> r, queries |-> q]
    IN
    IF signal.size > current_balance
    THEN R(Err(ValidationError("InsufficientBalance", <<signal.size, current_balance>>)), <<>>)
    ELSE IF signal.size > max_position_size_usd
    THEN R(Err(ValidationError("PositionTooLarge", signal.size)), <<>>)
    ELSE IF fail_at = 1 THEN R(Err(ValidationError("DatabaseError", 1)), q1)
    ELSE IF count_open_positions >= max_open_positions
    THEN R(Err(ValidationError("MaxPositionsReached", count_open_positions)), q1)
    ELSE IF fail_at = 2 THEN R(Err(ValidationError("DatabaseError", 2)), q2)
    ELSE IF count_trades_today >= max_daily_trades
    THEN R(Err(ValidationError("DailyTradesExceeded", count_trades_today)), q2)
    ELSE IF fail_at = 3 THEN R(Err(ValidationError("DatabaseError", 3)), q3)
    ELSE IF get_daily_pnl < -max_daily_loss_usd
    THEN R(Err(ValidationError("DailyLossLimitHit", get_daily_pnl)), q3)
    ELSE IF fail_at = 4 THEN R(Err(ValidationError("DatabaseError", 4)), q4)
    ELSE IF DrawdownOver(peak, current_balance)
    THEN R(Err(ValidationError("DrawdownExceeded", DrawdownOf(peak, current_balance))), q4)
    ELSE IF signal.size * 100 > current_balance * max_position_pct
    THEN R(Err(ValidationError("PositionExceedsPercentage",
                               <<signal.size * 100, current_balance * max_position_pct>>)), q4)
    ELSE IF signal.edge # None /\ signal.edge[1] > EdgeSanityPct
    THEN R(Err(ValidationError("EdgeTooGoodToBeTrue", signal.edge[1])), q4)
    ELSE R(Ok(<<>>), q4)

\* validate_trade(&self, signal, db, current_balance); fail_at is the number of
\* the ledger query that returns an error (0: none does).  The value is the
\* Result together with the ledger queries issued on the way.
validate_trade(signal, current_balance, fail_at) ==
    LET q1 == <<"count_open_positions">>
        q2 == Append(q1, "count_trades_today")
        q3 == Append(q2, "get_daily_pnl")
        q4 == Append(q3, "get_peak_equity")
        peak == FMax(get_peak_equity, current_balance)
        R(r, q) == [ret |-> r, queries |-> q]
    IN
    \* 1. Capital check
    IF signal.size > current_balance
    THEN R(Err(ValidationError("InsufficientBalance", <<signal.size, current_balance>>)), <<>>)
    \* 2. Position limits
    ELSE IF fail_at = 1 THEN R(Err(ValidationError("DatabaseError", 1)), q1)
    ELSE IF count_open_positions >= max_open_positions
    THEN R(Err(ValidationError("MaxPositionsReached", count_open_positions)), q1)
    \* 3. Daily trades
    ELSE IF fail_at = 2 THEN R(Err(ValidationError("DatabaseError", 2)), q2)
    ELSE IF count_trades_today >= max_daily_trades
    THEN R(Err(ValidationError("DailyTradesExceeded", count_trades_today)), q2)
    \* 4. Daily loss
    ELSE IF fail_at = 3 THEN R(Err(ValidationError("DatabaseError", 3)), q3)
    ELSE IF get_daily_pnl < -max_daily_loss_usd
    THEN R(Err(ValidationError("DailyLossLimitHit", get_daily_pnl)), q3)
    \* 5. Drawdown check
    ELSE IF fail_at = 4 THEN R(Err(ValidationError("DatabaseError", 4)), q4)
    ELSE IF DrawdownOver(peak, current_balance)
    THEN R(Err(ValidationError("DrawdownExceeded", DrawdownOf(peak, current_balance))), q4)
    \* 6. Position size limits
    ELSE IF signal.size > max_position_size_usd
    THEN R(Err(ValidationError("PositionTooLarge", signal.size)), q4)
    ELSE IF signal.size * 100 > current_balance * max_position_pct
    THEN R(Err(ValidationError("PositionExceedsPercentage",
                               <<signal.size * 100, current_balance * max_position_pct>>)), q4)
    \* 7. Edge validation
    ELSE IF signal.edge # None /\ signal.edge[1] > EdgeSanityPct
    THEN R(Err(ValidationError("EdgeTooGoodToBeTrue", signal.edge[1])), q4)
    \* 8. Correlation check: skipped.  9. AI validation: not here.
    \* 10. All checks passed
    ELSE R(Ok(<<>>), q4)

\* validate_trade that books the accepted signal as a pending order
ValidateTradeBooksOrder(signal, current_balance, fail_at) ==
    /\ op' = "validate_trade"
    /\ arg' = [signal |-> signal, balance |-> current_balance, fail_at |-> fail_at]
    /\ LET result == validate_trade(signal, current_balance, fail_at)
       IN /\ ret' = result.ret
          /\ queries' = result.queries
          /\ orders' = IF result.ret.kind = "Ok"
                       THEN Append(orders, [id |-> Len(orders) + 1,
                                            market_id |-> signal.market_id,
                                            status |-> "pending"])
                       ELSE orders
    /\ UNCHANGED <<breaker, now, rpc_healthy, positions, circuit_breaker_events,
                   emergency_exits>>
    /\ UNCHANGED cachesim

ValidateTrade(signal, current_balance, fail_at) ==
    /\ op' = "validate_trade"
    /\ arg' = [signal |-> signal, balance |-> current_balance, fail_at |-> fail_at]
    /\ LET result == validate_trade(signal, current_balance, fail_at)
       IN /\ ret' = result.ret
          /\ queries' = result.queries
    /\ UNCHANGED <<breaker, now, rpc_healthy, tables>>
    /\ UNCHANGED cachesim

(***************************************************************************)
(* The trading flow: a thread validates a signal and, once validate_trade  *)
(* returned Ok, books the position.  The two are separate calls on the     *)
(* shared ledger, and other threads run between them.                      *)
(***************************************************************************)
\* create_position_from_fill for a signal filled at its entry price
PositionOfSignal(signal) ==
    [id |-> None, market_id |-> signal.market_id,
     strategy |-> IF signal.strategy = "WeatherEdge" THEN "weather_edge"
                  ELSE "sum_to_one_arb",
     side |-> signal.side,
     yes_shares |-> IF signal.side = Some("Yes") THEN signal.size ELSE 0,
     no_shares |-> IF signal.side = Some("Yes") THEN 0 ELSE signal.size,
     entry_price |-> signal.entry_price, cost |-> signal.size, opened_at |-> now,
     closed_at |-> None, pnl |-> None, status |-> "open"]

\* the market whose candidates a thread evaluates, one at a time
MarketOf(t) == IF t = "t1" THEN MarketSeoul ELSE MarketHex

\* thread t calls validate_trade(signal, db, current_balance)
TraderValidates(t, signal, current_balance) ==
    /\ signal.market_id = MarketOf(t)
    /\ pc[t] = None
    /\ op' = "validate_trade"
    /\ arg' = [signal |-> signal, balance |-> current_balance, fail_at |-> 0]
    /\ LET result == validate_trade(signal, current_balance, 0)
       IN /\ ret' = result.ret
          /\ queries' = result.queries
          /\ pc' = [pc EXCEPT ![t] = IF result.ret.kind = "Ok" THEN Some(signal)
                                     ELSE None]
    /\ UNCHANGED <<breaker, now, rpc_healthy, tables, cache, instant, sim_balance,
                   calls>>

\* thread t calls insert_position for the signal it validated
TraderInserts(t) ==
    /\ pc[t] # None
    /\ op' = "insert_position"
    /\ arg' = NoArg
    /\ positions' = Append(positions, PositionRow(PositionOfSignal(pc[t][1])))
    /\ ret' = Ok(PositionRow(PositionOfSignal(pc[t][1])).id)
    /\ pc' = [pc EXCEPT ![t] = None]
    /\ UNCHANGED <<breaker, now, rpc_healthy, orders, circuit_breaker_events,
                   emergency_exits, queries, cache, instant, sim_balance, calls>>

(***************************************************************************)
(* PriceCache (src/src/data/cache.rs): a concurrent map from keys to        *)
(* prices with a time to live.  Every DashMap call (get, insert, remove,   *)
(* clear, len) is atomic; PriceCache::get makes two of them, and other      *)
(* threads run between the two.  Durations are in milliseconds.            *)
(***************************************************************************)
Threads == {"t1", "t2"}

Keys == {"ARB", "WEATHER"}

Tags == {"sum_to_one_arb", "weather_edge", "momentum"}

Prices == {1, 2}

\* the readings of the monotonic clock: an entry written at 0 is read at the
\* end of each time to live and one millisecond later
InstantReadings == {0, 500, 501, 60000, 60001, 300000, 300001}

Hit(price) == [kind |-> "Some", v |-> price]
Miss == [kind |-> "None", v |-> 0]
Value(x) == [kind |-> "Value", v |-> x]

EmptyCache == [k \in {} |-> 0]

\* insert: let ttl = match strategy { ... }
TtlOf(strategy) ==
    CASE strategy = "sum_to_one_arb" -> 500
      [] strategy = "weather_edge" -> 300 * 1000
      [] OTHER -> 60 * 1000

\* CachedPrice { price, timestamp: Instant::now(), ttl }
CachedPrice(price, strategy) ==
    [price |-> price, timestamp |-> instant, ttl |-> TtlOf(strategy)]

\* get: entry.timestamp.elapsed() > entry.ttl
Expired(entry) == instant - entry.timestamp > entry.ttl

\* DashMap::remove(key)
Remove(map, key) == [k \in DOMAIN map \ {key} |-> map[k]]

\* insert(&self, key, price, strategy)
CacheInsert(t, key, price, strategy) ==
    /\ pc[t] = None
    /\ op' = "cache_insert"
    /\ arg' = [thread |-> t, key |-> key]
    /\ ret' = Unit
    /\ cache' = [k \in DOMAIN cache \cup {key} |->
                    IF k = key THEN CachedPrice(price, strategy) ELSE cache[k]]
    /\ UNCHANGED <<riskstate, instant, pc, sim_balance, calls>>

\* get(&self, key), its first map call: self.cache.get(key) and the closure
\* up to drop(entry).  On an expired entry the thread goes on to CacheEvict.
CacheGet(t, key) ==
    /\ pc[t] = None
    /\ arg' = [thread |-> t, key |-> key]
    /\ IF key \notin DOMAIN cache
       THEN /\ op' = "cache_get"
            /\ ret' = Miss
            /\ UNCHANGED pc
       ELSE IF Expired(cache[key])
       THEN /\ op' = "cache_get_expired"
            /\ ret' = Unit
            /\ pc' = [pc EXCEPT ![t] = Some(key)]
       ELSE /\ op' = "cache_get"
            /\ ret' = Hit(cache[key].price)
            /\ UNCHANGED pc
    /\ UNCHANGED <<riskstate, cache, instant, sim_balance, calls>>

\* get(&self, key), its second map call: self.cache.remove(key); None
CacheEvict(t) ==
    /\ pc[t] # None
    /\ op' = "cache_get"
    /\ arg' = [thread |-> t, key |-> pc[t][1]]
    /\ ret' = Miss
    /\ cache' = Remove(cache, pc[t][1])
    /\ pc' = [pc EXCEPT ![t] = None]
    /\ UNCHANGED <<riskstate, instant, sim_balance, calls>>

\* clear(&self)
CacheClear(t) ==
    /\ pc[t] = None
    /\ op' = "cache_clear"
    /\ arg' = [thread |-> t, key |-> ""]
    /\ ret' = Unit
    /\ cache' = EmptyCache
    /\ UNCHANGED <<riskstate, instant, pc, sim_balance, calls>>

\* len(&self)
CacheLen(t) ==
    /\ pc[t] = None
    /\ op' = "cache_len"
    /\ arg' = [thread |-> t, key |-> ""]
    /\ ret' = Value(Cardinality(DOMAIN cache))
    /\ UNCHANGED <<riskstate, cache, instant, pc, sim_balance, calls>>

\* a clock tick that also sweeps the entries whose time to live is over
InstantAdvancePurges(ms) ==
    /\ ms > instant
    /\ instant' = ms
    /\ cache' = [k \in {j \in DOMAIN cache : ms - cache[j].timestamp <= cache[j].ttl} |->
                    cache[k]]
    /\ UNCHANGED <<riskstate, op, arg, ret, pc, sim_balance, calls>>

\* the monotonic clock reads ms, later than the reading before
InstantAdvance(ms) ==
    /\ ms > instant
    /\ instant' = ms
    /\ UNCHANGED <<riskstate, op, arg, ret, cache, pc, sim_balance, calls>>

(***************************************************************************)
(* PaperTradingSimulator (src/src/execution/simulator.rs).                 *)
(***************************************************************************)
\* two simulators built from the same PaperTradingConfig
Sims == {"a", "b"}

\* one dollar, in the unit of money and of prices (a hundredth of a cent)
Dollar == 10000
\* 1.0 in the unit of slippage (a ten-thousandth)
SlippageOne == 10000
\* 1.0 in the unit of a draw of rng.gen::<f64>(), a value of [0, 1), in tenths
DrawOne == 10

\* PaperTradingConfig: fill_rate 0.70 and slippage_pct 0.005 are the defaults
fill_rate == 7
slippage_pct == 50
initial_balance_usd == 100 * Dollar

\* the draws of thread_rng that the orders below see: 0.6 and 0.7 against the
\* fill rate, 0.0 and 0.8 for the slippage (executed prices stay whole)
FillDraws == {6, 7}
SlippageDraws == {0, 8}

\* an order of 100 shares at $0.50 and an order of 300 shares at $0.40
SimOrders ==
    { [market_id |-> MarketSeoul, side |-> "Yes", token |-> "Yes",
       price |-> 5000, size |-> 100, order_type |-> "FOK"],
      [market_id |-> MarketHex, side |-> "No", token |-> "No",
       price |-> 4000, size |-> 300, order_type |-> "GTC"] }

\* the winnings handed to add_to_balance
SimAmounts == {50 * Dollar}

\* the calls made to all simulators so far
CallsMade == Len(calls["a"]) + Len(calls["b"])

\* a call of a simulator as kept in calls: its input and the fill it returned
Call(name, input, fill) == [op |-> name, input |-> input, fill |-> fill]

\* order.price * (1.0 + slippage) with slippage = draw * slippage_pct
ExecutedPrice(order, slip_draw) ==
    LET slippage == (slip_draw * slippage_pct) \div DrawOne
    IN  (order.price * (SlippageOne + slippage)) \div SlippageOne

\* Fill of execute_order
Fill(order, executed_price, cost) ==
    [market_id |-> order.market_id, size |-> order.size,
     price |-> executed_price, cost |-> cost, timestamp |-> now]

\* execute_order that takes the cost of an order it did not fill
ExecuteOrderChargesUnfilled(sim, order, fill_draw, slip_draw) ==
    LET cost == order.size * ExecutedPrice(order, slip_draw)
        filled == fill_draw < fill_rate /\ ~(cost > sim_balance[sim])
        fill == IF filled THEN Some(Fill(order, ExecutedPrice(order, slip_draw), cost))
                ELSE None
    IN  /\ CallsMade < MaxCalls
        /\ op' = "execute_order"
        /\ arg' = [sim |-> sim, order |-> order, fill_draw |-> fill_draw,
                   slip_draw |-> slip_draw]
        /\ ret' = Ok(fill)
        /\ sim_balance' = [sim_balance EXCEPT ![sim] = @ - order.size * order.price]
        /\ calls' = [calls EXCEPT ![sim] = Append(@, Call("execute_order", order, fill))]
        /\ UNCHANGED <<riskstate, cache, instant, pc>>

\* execute_order whose fill reports the price of the order, not the executed one
ExecuteOrderFillsAtOrderPrice(sim, order, fill_draw, slip_draw) ==
    LET cost == order.size * ExecutedPrice(order, slip_draw)
        filled == fill_draw < fill_rate /\ ~(cost > sim_balance[sim])
        fill == IF filled THEN Some(Fill(order, order.price, cost)) ELSE None
    IN  /\ CallsMade < MaxCalls
        /\ op' = "execute_order"
        /\ arg' = [sim |-> sim, order |-> order, fill_draw |-> fill_draw,
                   slip_draw |-> slip_draw]
        /\ ret' = Ok(fill)
        /\ sim_balance' = [sim_balance EXCEPT ![sim] = IF filled THEN @ - cost ELSE @]
        /\ calls' = [calls EXCEPT ![sim] = Append(@, Call("execute_order", order, fill))]
        /\ UNCHANGED <<riskstate, cache, instant, pc>>

\* execute_order without the test of the cost against the balance
ExecuteOrderSkipsBalanceCheck(sim, order, fill_draw, slip_draw) ==
    LET will_fill == fill_draw < fill_rate
        executed_price == ExecutedPrice(order, slip_draw)
        cost == order.size * executed_price
        fill == IF ~will_fill THEN None
                ELSE Some(Fill(order, executed_price, cost))
    IN  /\ CallsMade < MaxCalls
        /\ op' = "execute_order"
        /\ arg' = [sim |-> sim, order |-> order, fill_draw |-> fill_draw,
                   slip_draw |-> slip_draw]
        /\ ret' = Ok(fill)
        /\ sim_balance' = [sim_balance EXCEPT ![sim] =
                               IF fill = None THEN @ ELSE @ - cost]
        /\ calls' = [calls EXCEPT ![sim] = Append(@, Call("execute_order", order, fill))]
        /\ UNCHANGED <<riskstate, cache, instant, pc>>

\* execute_order(order); fill_draw and slip_draw are the two values that the
\* call draws from rand::thread_rng()
ExecuteOrder(sim, order, fill_draw, slip_draw) ==
    LET will_fill == fill_draw < fill_rate
        executed_price == ExecutedPrice(order, slip_draw)
        cost == order.size * executed_price
        fill == IF ~will_fill THEN None
                ELSE IF cost > sim_balance[sim] THEN None
                ELSE Some(Fill(order, executed_price, cost))
    IN  /\ CallsMade < MaxCalls
        /\ op' = "execute_order"
        /\ arg' = [sim |-> sim, order |-> order, fill_draw |-> fill_draw,
                   slip_draw |-> slip_draw]
        /\ ret' = Ok(fill)
        /\ sim_balance' = [sim_balance EXCEPT ![sim] =
                               IF fill = None THEN @ ELSE @ - cost]
        /\ calls' = [calls EXCEPT ![sim] = Append(@, Call("execute_order", order, fill))]
        /\ UNCHANGED <<riskstate, cache, instant, pc>>

\* add_to_balance(amount)
AddToBalance(sim, amount) ==
    /\ CallsMade < MaxCalls
    /\ op' = "add_to_balance"
    /\ arg' = [sim |-> sim, amount |-> amount]
    /\ ret' = Unit
    /\ sim_balance' = [sim_balance EXCEPT ![sim] = @ + amount]
    /\ calls' = [calls EXCEPT ![sim] = Append(@, Call("add_to_balance", amount, None))]
    /\ UNCHANGED <<riskstate, cache, instant, pc>>

(***************************************************************************)
(* f64 values as extended rationals n/d with d >= 0: 1/0 is +inf, -1/0 is  *)
(* -inf and 0/0 is NaN; rounding is not modelled.                          *)
(***************************************************************************)
RECURSIVE Gcd(_, _)
Gcd(a, b) == IF b = 0 THEN a ELSE Gcd(b, a % b)

Abs(x) == IF x < 0 THEN -x ELSE x

Sign(x) == IF x < 0 THEN -1 ELSE IF x > 0 THEN 1 ELSE 0

\* the value n/d for d >= 0, in lowest terms
F64(n, d) ==
    IF d = 0 THEN [n |-> Sign(n), d |-> 0]
    ELSE [n |-> n \div Gcd(Abs(n), d), d |-> d \div Gcd(Abs(n), d)]

NaN == [n |-> 0, d |-> 0]
Zero == [n |-> 0, d |-> 1]
One == [n |-> 1, d |-> 1]

IsNaN(a) == a.n = 0 /\ a.d = 0

Neg(a) == [n |-> -a.n, d |-> a.d]

\* a + b: inf + inf is inf, inf - inf and anything with NaN are NaN
Add(a, b) ==
    IF a.d = 0 /\ b.d = 0 THEN (IF a.n = b.n THEN a ELSE NaN)
    ELSE F64(a.n * b.d + b.n * a.d, a.d * b.d)

Sub(a, b) == Add(a, Neg(b))

\* a * b: inf * 0 is NaN
Mul(a, b) == F64(a.n * b.n, a.d * b.d)

\* 1.0 / a: 1/0 is inf, 1/inf is 0
Recip(a) == IF a.n < 0 THEN F64(-a.d, -a.n) ELSE F64(a.d, a.n)

\* a / b: x/0 is inf for x > 0, 0/0 and inf/inf are NaN
Div(a, b) == Mul(a, Recip(b))

\* a > b, false when either is NaN
Gt(a, b) ==
    IF a.d = 0 /\ b.d = 0 THEN a.n = 1 /\ b.n = -1
    ELSE a.n * b.d > b.n * a.d

\* f64::max and f64::min: the other argument when one is NaN
Max(a, b) == IF IsNaN(a) THEN b ELSE IF IsNaN(b) THEN a ELSE IF Gt(b, a) THEN b ELSE a
Min(a, b) == IF IsNaN(a) THEN b ELSE IF IsNaN(b) THEN a ELSE IF Gt(a, b) THEN b ELSE a

(***************************************************************************)
(* WeatherEdgeStrategy (src/src/strategies/weather_edge.rs).               *)
(* Probabilities and prices handed to analyze_weather_market are whole     *)
(* thousandths.                                                            *)
(***************************************************************************)
\* 1.0 in thousandths
Mille == 1000

\* a number of thousandths as an f64
OfMille(x) == F64(x, Mille)

\* calculate_kelly_position without the clamp of negative and NaN fractions
calculate_kelly_position_unclamped(capital, forecast_prob, market_price, max_pct) ==
    LET bet_yes == Gt(forecast_prob, market_price)
        win_prob == IF bet_yes THEN forecast_prob ELSE Sub(One, forecast_prob)
        bet_price == IF bet_yes THEN market_price ELSE Sub(One, market_price)
        odds == Div(Sub(One, bet_price), bet_price)
        lose_prob == Sub(One, win_prob)
        kelly_fraction == Div(Sub(Mul(odds, win_prob), lose_prob), odds)
        fractional_kelly == Mul(kelly_fraction, F64(25, 100))
        position == Mul(capital, fractional_kelly)
        max_position == Mul(capital, max_pct)
    IN  Min(position, max_position)

\* calculate_kelly_position that always sizes the bet on YES
calculate_kelly_position_yes_only(capital, forecast_prob, market_price, max_pct) ==
    LET win_prob == forecast_prob
        bet_price == market_price
        odds == Div(Sub(One, bet_price), bet_price)
        lose_prob == Sub(One, win_prob)
        kelly_fraction == Div(Sub(Mul(odds, win_prob), lose_prob), odds)
        fractional_kelly == Mul(kelly_fraction, F64(25, 100))
        position == Mul(capital, Max(fractional_kelly, Zero))
        max_position == Mul(capital, max_pct)
    IN  Min(position, max_position)

calculate_kelly_position(capital, forecast_prob, market_price, max_pct) ==
    LET bet_yes == Gt(forecast_prob, market_price)
        win_prob == IF bet_yes THEN forecast_prob ELSE Sub(One, forecast_prob)
        bet_price == IF bet_yes THEN market_price ELSE Sub(One, market_price)
        odds == Div(Sub(One, bet_price), bet_price)
        lose_prob == Sub(One, win_prob)
        kelly_fraction == Div(Sub(Mul(odds, win_prob), lose_prob), odds)
        fractional_kelly == Mul(kelly_fraction, F64(25, 100))
        position == Mul(capital, Max(fractional_kelly, Zero))
        max_position == Mul(capital, max_pct)
    IN  Min(position, max_position)

\* Signal of analyze_weather_market
WeatherSignal(market, side, entry_price, size, edge, confidence) ==
    [market_id |-> market.id, strategy |-> "WeatherEdge", side |-> Some(side),
     entry_price |-> entry_price, size |-> size, edge |-> Some(edge),
     confidence |-> confidence]

\* analyze_weather_market that accepts any disagreement of the two forecasts
analyze_weather_market_unvalidated(in) ==
    IF in.parsed.kind = "Err" THEN Ok(None)
    ELSE IF in.noaa.kind = "Err" THEN in.noaa
    ELSE IF in.open_meteo.kind = "Err" THEN in.open_meteo
    ELSE
        LET noaa_forecast == in.noaa.v
            open_meteo_forecast == in.open_meteo.v
            forecast_prob ==
                (noaa_forecast.probability + open_meteo_forecast.probability) \div 2
            forecast_prob_adjusted ==
                IF in.parsed.v = "Above" THEN forecast_prob ELSE Mille - forecast_prob
            market_prob == in.market.yes_price
            edge == Abs(forecast_prob_adjusted - market_prob)
            side == IF forecast_prob_adjusted > market_prob THEN "Yes" ELSE "No"
            entry_price == IF side = "Yes" THEN in.market.yes_ask ELSE in.market.no_ask
            size == calculate_kelly_position(
                        F64(in.capital, 1), OfMille(forecast_prob_adjusted),
                        OfMille(entry_price), OfMille(in.max_position_pct))
        IN  IF edge < in.min_edge THEN Ok(None)
            ELSE Ok(Some(WeatherSignal(
                     in.market, side, entry_price, size, edge,
                     (noaa_forecast.confidence + open_meteo_forecast.confidence) \div 2)))

\* analyze_weather_market that reads every question as an Above question
analyze_weather_market_above_only(in) ==
    IF in.parsed.kind = "Err" THEN Ok(None)
    ELSE IF in.noaa.kind = "Err" THEN in.noaa
    ELSE IF in.open_meteo.kind = "Err" THEN in.open_meteo
    ELSE
        LET noaa_forecast == in.noaa.v
            open_meteo_forecast == in.open_meteo.v
            forecast_diff ==
                Abs(noaa_forecast.probability - open_meteo_forecast.probability)
            forecast_prob ==
                (noaa_forecast.probability + open_meteo_forecast.probability) \div 2
            forecast_prob_adjusted == forecast_prob
            market_prob == in.market.yes_price
            edge == Abs(forecast_prob_adjusted - market_prob)
            side == IF forecast_prob_adjusted > market_prob THEN "Yes" ELSE "No"
            entry_price == IF side = "Yes" THEN in.market.yes_ask ELSE in.market.no_ask
            size == calculate_kelly_position(
                        F64(in.capital, 1), OfMille(forecast_prob_adjusted),
                        OfMille(entry_price), OfMille(in.max_position_pct))
        IN  IF forecast_diff > 100 THEN Ok(None)
            ELSE IF edge < in.min_edge THEN Ok(None)
            ELSE Ok(Some(WeatherSignal(
                     in.market, side, entry_price, size, edge,
                     (noaa_forecast.confidence + open_meteo_forecast.confidence) \div 2)))

\* analyze_weather_market(market, capital, max_position_pct); in.parsed is what
\* parse_weather_question returned for the question, in.noaa and in.open_meteo
\* what the two fetches of the weather client return, in.min_edge the
\* configured minimum edge
analyze_weather_market(in) ==
    IF in.parsed.kind = "Err" THEN Ok(None)
    ELSE IF in.noaa.kind = "Err" THEN in.noaa
    ELSE IF in.open_meteo.kind = "Err" THEN in.open_meteo
    ELSE
        LET noaa_forecast == in.noaa.v
            open_meteo_forecast == in.open_meteo.v
            forecast_diff ==
                Abs(noaa_forecast.probability - open_meteo_forecast.probability)
            forecast_prob ==
                (noaa_forecast.probability + open_meteo_forecast.probability) \div 2
            forecast_prob_adjusted ==
                IF in.parsed.v = "Above" THEN forecast_prob ELSE Mille - forecast_prob
            market_prob == in.market.yes_price
            edge == Abs(forecast_prob_adjusted - market_prob)
            side == IF forecast_prob_adjusted > market_prob THEN "Yes" ELSE "No"
            entry_price == IF side = "Yes" THEN in.market.yes_ask ELSE in.market.no_ask
            size == calculate_kelly_position(
                        F64(in.capital, 1), OfMille(forecast_prob_adjusted),
                        OfMille(entry_price), OfMille(in.max_position_pct))
        IN  IF forecast_diff > 100 THEN Ok(None)
            ELSE IF edge < in.min_edge THEN Ok(None)
            ELSE Ok(Some(WeatherSignal(
                     in.market, side, entry_price, size, edge,
                     (noaa_forecast.confidence + open_meteo_forecast.confidence) \div 2)))

\* a ProbabilisticForecast, as far as the strategy reads it
Forecast(probability, confidence) ==
    [probability |-> probability, confidence |-> confidence]

\* the outcomes of parse_weather_question and of the two fetches
Parsed == {Ok("Above"), Ok("Below"), Err("parse_weather_question")}
NoaaForecasts ==
    {Err("fetch_probabilistic_forecast")}
        \cup {Ok(Forecast(p, 900)) : p \in {300, 600, 700}}
OpenMeteoForecasts ==
    {Err("fetch_open_meteo")} \cup {Ok(Forecast(p, 700)) : p \in {400, 600, 650, 850}}

\* the markets analysed: yes_price with the two asks
WeatherMarkets ==
    { [id |-> MarketSeoul, yes_price |-> 350, yes_ask |-> 360, no_ask |-> 660],
      [id |-> MarketSeoul, yes_price |-> 600, yes_ask |-> 610, no_ask |-> 410],
      [id |-> MarketHex, yes_price |-> 650, yes_ask |-> 650, no_ask |-> 350],
      [id |-> MarketHex, yes_price |-> 1000, yes_ask |-> 1000, no_ask |-> 0] }

MinEdges == {0, 50}

AnalysisInputs ==
    [parsed : Parsed, noaa : NoaaForecasts, open_meteo : OpenMeteoForecasts,
     market : WeatherMarkets, min_edge : MinEdges, capital : {2000},
     max_position_pct : {100}]

\* the arguments of calculate_kelly_position: capital in dollars, the
\* probability, the price and the cap in hundredths
KellyInputs ==
    [capital : {0, 2000}, forecast_prob : {0, 20, 50, 52, 65, 85, 95, 100},
     market_price : {0, 50, 65, 100}, max_position_pct : {0, 10}]

AnalyzeWeatherMarket(in) ==
    /\ op' = "analyze_weather_market"
    /\ arg' = in
    /\ ret' = analyze_weather_market(in)
    /\ UNCHANGED <<riskstate, cachesim>>

CalculateKellyPosition(in) ==
    /\ op' = "calculate_kelly_position"
    /\ arg' = in
    /\ ret' = Value(calculate_kelly_position(
                  F64(in.capital, 1), F64(in.forecast_prob, 100),
                  F64(in.market_price, 100), F64(in.max_position_pct, 100)))
    /\ UNCHANGED <<riskstate, cachesim>>

(***************************************************************************)
(* Market questions and the weather client: parse_weather_question,        *)
(* extract_temperature and WeatherClient's pure functions.  A str is the   *)
(* sequence of its characters.                                             *)
(***************************************************************************)
\* the character U+00B0
DegreeSign == "deg"

Digit == {"0", "1", "2", "3", "4", "5", "6", "7", "8", "9"}

\* str::to_lowercase
to_lowercase(s) ==
    LET upper == <<"A", "B", "C", "D", "E", "F", "G", "H", "I", "J", "K", "L", "M",
                   "N", "O", "P", "Q", "R", "S", "T", "U", "V", "W", "X", "Y", "Z">>
        lower == <<"a", "b", "c", "d", "e", "f", "g", "h", "i", "j", "k", "l", "m",
                   "n", "o", "p", "q", "r", "s", "t", "u", "v", "w", "x", "y", "z">>
    IN [i \in 1..Len(s) |->
           IF \E k \in 1..26 : upper[k] = s[i]
           THEN lower[CHOOSE k \in 1..26 : upper[k] = s[i]]
           ELSE s[i]]

\* pat stands in s at position i
StartsAt(s, i, pat) ==
    /\ i + Len(pat) - 1 <= Len(s)
    /\ \A k \in 1..Len(pat) : s[i + k - 1] = pat[k]

\* str::contains
contains(s, pat) == \E i \in 1..(Len(s) + 1) : StartsAt(s, i, pat)

\* the position after the longest run of digits (\d*) starting at i
RECURSIVE DigitsEnd(_, _)
DigitsEnd(s, i) == IF i <= Len(s) /\ s[i] \in Digit THEN DigitsEnd(s, i + 1) ELSE i

\* the position after \s* starting at i
RECURSIVE SpaceEnd(_, _)
SpaceEnd(s, i) == IF i <= Len(s) /\ s[i] = " " THEN SpaceEnd(s, i + 1) ELSE i

\* Regex::captures of (\d+(?:\.\d+)?)\s*(?:°[FC]|degrees?): the leftmost
\* match, as the span of group 1.  A number shorter than the longest one
\* never lets the rest match, since a digit or a dot would follow it.
captures(s) ==
    LET number_end(i) ==
            LET j == DigitsEnd(s, i)
            IN IF j < Len(s) /\ s[j] = "." /\ s[j + 1] \in Digit
               THEN DigitsEnd(s, j + 1) ELSE j
        unit_at(i) ==
            \/ StartsAt(s, i, <<DegreeSign, "F">>)
            \/ StartsAt(s, i, <<DegreeSign, "C">>)
            \/ StartsAt(s, i, <<"d", "e", "g", "r", "e", "e">>)
        matches_at(i) == s[i] \in Digit /\ unit_at(SpaceEnd(s, number_end(i)))
    IN IF \E i \in 1..Len(s) : matches_at(i)
       THEN LET first == CHOOSE i \in 1..Len(s) :
                          matches_at(i) /\ \A k \in 1..(i - 1) : ~matches_at(k)
            IN Some([start |-> first, end |-> number_end(first)])
       ELSE None

DigitValue(c) == CHOOSE v \in 0..9 : <<"0", "1", "2", "3", "4", "5", "6", "7", "8", "9">>[v + 1] = c

\* the decimal digits s[i..j-1] as a number
RECURSIVE Decimal(_, _, _)
Decimal(s, i, j) == IF j <= i THEN 0 ELSE 10 * Decimal(s, i, j - 1) + DigitValue(s[j - 1])

RECURSIVE Pow10(_)
Pow10(k) == IF k = 0 THEN 1 ELSE 10 * Pow10(k - 1)

\* str::parse::<f64> of the capture s[i..j-1], digits with an optional fraction
parse_f64(s, i, j) ==
    LET d == DigitsEnd(s, i)
    IN IF d = j THEN F64(Decimal(s, i, j), 1)
       ELSE F64(Decimal(s, i, d) * Pow10(j - d - 1) + Decimal(s, d + 1, j), Pow10(j - d - 1))

extract_temperature(question) ==
    LET cap == captures(question)
    IN IF cap # None
       THEN LET temp == parse_f64(question, cap[1].start, cap[1].end)
            IN Ok(IF \/ contains(question, <<DegreeSign, "F">>)
                     \/ contains(question, <<"d", "e", "g", "r", "e", "e", "s", " ", "F">>)
                  THEN Div(Mul(Sub(temp, F64(32, 1)), F64(5, 1)), F64(9, 1))
                  ELSE temp)
       ELSE Err("Could not extract temperature from question")

WeatherMarketInfo(city, threshold, comparison) ==
    [city |-> city, threshold |-> threshold, comparison |-> comparison]

parse_weather_question(question) ==
    LET question_lower == to_lowercase(question)
        threshold == extract_temperature(question)
    IN IF ~(\/ contains(question_lower, <<"l", "o", "n", "d", "o", "n">>)
            \/ contains(question_lower, <<"n", "e", "w", " ", "y", "o", "r", "k">>)
            \/ contains(question_lower, <<"n", "y", "c">>)
            \/ contains(question_lower, <<"c", "h", "i", "c", "a", "g", "o">>)
            \/ contains(question_lower, <<"s", "e", "o", "u", "l">>))
       THEN Err("Could not identify city in question")
       ELSE IF threshold.kind = "Err" THEN threshold
       ELSE IF ~(\/ contains(question_lower, <<"e", "x", "c", "e", "e", "d">>)
                 \/ contains(question_lower, <<"a", "b", "o", "v", "e">>)
                 \/ contains(question_lower, <<">">>)
                 \/ contains(question_lower, <<"b", "e", "l", "o", "w">>)
                 \/ contains(question_lower, <<"<">>))
       THEN Err("Could not identify comparison type")
       ELSE Ok(WeatherMarketInfo(
                IF contains(question_lower, <<"l", "o", "n", "d", "o", "n">>) THEN "London"
                ELSE IF \/ contains(question_lower, <<"n", "e", "w", " ", "y", "o", "r", "k">>)
                        \/ contains(question_lower, <<"n", "y", "c">>)
                     THEN "New York"
                ELSE IF contains(question_lower, <<"c", "h", "i", "c", "a", "g", "o">>) THEN "Chicago"
                ELSE "Seoul",
                threshold.v,
                IF \/ contains(question_lower, <<"e", "x", "c", "e", "e", "d">>)
                   \/ contains(question_lower, <<"a", "b", "o", "v", "e">>)
                   \/ contains(question_lower, <<">">>)
                THEN "Above" ELSE "Below"))

\* Coordinates, in ten-thousandths of a degree
Coordinates(lat, lon) == [lat |-> lat, lon |-> lon]

\* WeatherClient::city_to_coords without the "New York" key
city_to_coords_nyc_only(city) ==
    CASE city = "London" -> Ok(Coordinates(515074, -1278))
      [] city = "NYC" -> Ok(Coordinates(407128, -740060))
      [] city = "Chicago" -> Ok(Coordinates(418781, -876298))
      [] city = "Seoul" -> Ok(Coordinates(375665, 1269780))
      [] OTHER -> Err("Unknown city")

city_to_coords(city) ==
    CASE city = "London" -> Ok(Coordinates(515074, -1278))
      [] city = "New York" -> Ok(Coordinates(407128, -740060))
      [] city = "NYC" -> Ok(Coordinates(407128, -740060))
      [] city = "Chicago" -> Ok(Coordinates(418781, -876298))
      [] city = "Seoul" -> Ok(Coordinates(375665, 1269780))
      [] OTHER -> Err("Unknown city")

\* the market questions "Will <city> temperature <verb> <temperature> on 2026-02-17?"
Questions ==
    { <<"W", "i", "l", "l", " ">> \o city \o <<" ", "t", "e", "m", "p", "e", "r", "a", "t", "u", "r", "e", " ">> \o verb \o <<" ">> \o temp \o <<" ", "o", "n", " ", "2", "0", "2", "6", "-", "0", "2", "-", "1", "7", "?">> :
        city \in {<<"L", "o", "n", "d", "o", "n">>,
                  <<"N", "Y", "C">>,
                  <<"N", "e", "w", " ", "Y", "o", "r", "k">>,
                  <<"C", "h", "i", "c", "a", "g", "o">>,
                  <<"S", "e", "o", "u", "l">>,
                  <<"T", "o", "k", "y", "o">>},
        verb \in {<<"e", "x", "c", "e", "e", "d">>,
                  <<"b", "e", " ", "a", "b", "o", "v", "e">>,
                  <<"b", "e", " ", "b", "e", "l", "o", "w">>,
                  <<"r", "e", "a", "c", "h">>},
        temp \in {<<"6", "0", DegreeSign, "F">>,
                  <<"1", "5", DegreeSign, "C">>,
                  <<"2", "0", ".", "5", " ", "d", "e", "g", "r", "e", "e", "s", " ", "C">>,
                  <<"6", "0", " ", "d", "e", "g", "r", "e", "e", "s", " ", "F">>,
                  <<"1", "5", DegreeSign, "C", " ", "(", "5", "9", DegreeSign, "F", ")">>,
                  <<"5", "9", " ", "F">>} }

CityNames == {"London", "New York", "NYC", "Chicago", "Seoul", "Tokyo", "london"}

ParseWeatherQuestion(question) ==
    /\ op' = "parse_weather_question"
    /\ arg' = question
    /\ ret' = parse_weather_question(question)
    /\ UNCHANGED <<riskstate, cachesim>>

CityToCoords(city) ==
    /\ op' = "city_to_coords"
    /\ arg' = city
    /\ ret' = city_to_coords(city)
    /\ UNCHANGED <<riskstate, cachesim>>

(***************************************************************************)
(* WeatherClient's probability arithmetic.  Temperatures, z-scores and     *)
(* probabilities are fixed-point numbers, FixedOne to the unit, every      *)
(* product and quotient rounded to the nearest multiple of 1/FixedOne.     *)
(***************************************************************************)
FixedOne == 10000

\* n / d to the nearest integer, for d > 0
Nearest(n, d) == (n + d \div 2) \div d

FixedMul(a, b) == Nearest(a * b, FixedOne)

FixedDiv(a, b) == Nearest(a * FixedOne, b)

\* f64::exp for v <= 0: e^(v/16) by its Taylor polynomial, squared four times
exp(v) ==
    LET w == Nearest(v, 16)
        e5 == FixedOne + Nearest(w, 5)
        e4 == FixedOne + Nearest(FixedMul(w, e5), 4)
        e3 == FixedOne + Nearest(FixedMul(w, e4), 3)
        e2 == FixedOne + Nearest(FixedMul(w, e3), 2)
        e1 == FixedOne + FixedMul(w, e2)
        s1 == FixedMul(e1, e1)
        s2 == FixedMul(s1, s1)
        s3 == FixedMul(s2, s2)
    IN FixedMul(s3, s3)

\* f64::sqrt(2.0)
Sqrt2 == 14142

\* the Abramowitz & Stegun approximation of the error function
erf(x) ==
    LET a1 == 2548
        a2 == -2845
        a3 == 14214
        a4 == -14532
        a5 == 10614
        p == 3276
        sign == IF x < 0 THEN -1 ELSE 1
        t == FixedDiv(FixedOne, FixedOne + FixedMul(p, Abs(x)))
        y == FixedOne - FixedMul(
                 FixedMul(FixedMul(FixedMul(FixedMul(FixedMul(a5, t) + a4, t) + a3, t) + a2, t) + a1, t),
                 exp(-FixedMul(Abs(x), Abs(x))))
    IN sign * y

normal_cdf(z) == FixedMul(FixedOne \div 2, FixedOne + erf(FixedDiv(z, Sqrt2)))

\* forecast_to_probability returning the probability of staying at or below
\* the threshold
forecast_to_probability_below(mean_temp, threshold, std_dev) ==
    normal_cdf(FixedDiv(threshold - mean_temp, std_dev))

forecast_to_probability(mean_temp, threshold, std_dev) ==
    LET z_score == FixedDiv(threshold - mean_temp, std_dev)
    IN FixedOne - normal_cdf(z_score)

\* forecasts, thresholds and spreads handed to forecast_to_probability, in
\* degrees Celsius
MeanTemps == {10 * FixedOne, 16 * FixedOne, 20 * FixedOne}
Thresholds == {c * FixedOne : c \in 10..20} \cup {155556}
StdDevs == {2 * FixedOne, 25000, 4 * FixedOne}
ZScores == {k * (FixedOne \div 2) : k \in -10..10}

ForecastToProbability(mean_temp, threshold, std_dev) ==
    /\ op' = "forecast_to_probability"
    /\ arg' = [mean_temp |-> mean_temp, threshold |-> threshold, std_dev |-> std_dev]
    /\ ret' = Value(forecast_to_probability(mean_temp, threshold, std_dev))
    /\ UNCHANGED <<riskstate, cachesim>>

NormalCdf(z) ==
    /\ op' = "normal_cdf"
    /\ arg' = z
    /\ ret' = Value(normal_cdf(z))
    /\ UNCHANGED <<riskstate, cachesim>>

(***************************************************************************)
(* CircuitBreaker.                                                         *)
(***************************************************************************)
DayLossWaitSecs == 86400
CooldownSecs == 3600

\* CircuitBreaker::new, a freshly opened, empty ledger, PriceCache::new and
\* PaperTradingSimulator::new
InitBase ==
    /\ triggered = FALSE
    /\ reason = None
    /\ trigger_time = None
    /\ rpc_healthy = [e \in {"primary", "secondary"} |-> TRUE]
    /\ positions = <<>>
    /\ orders = <<>>
    /\ circuit_breaker_events = <<>>
    /\ emergency_exits = <<>>
    /\ op = "new"
    /\ arg = NoArg
    /\ ret = Unit
    /\ queries = <<>>
    /\ cache = EmptyCache
    /\ instant = 0
    /\ pc = [t \in Threads |-> None]
    /\ sim_balance = [sim \in Sims |-> initial_balance_usd]
    /\ calls = [sim \in Sims |-> <<>>]

\* is_triggered(&self)
IsTriggered ==
    /\ op' = "is_triggered"
    /\ arg' = NoArg
    /\ ret' = Ok(triggered)
    /\ UNCHANGED <<breaker, now, rpc_healthy, tables, queries>>
    /\ UNCHANGED cachesim

\* trigger without its early return: a second trigger overwrites the first
TriggerOverwrites(r, db_ok) ==
    /\ ~db_ok \/ Len(circuit_breaker_events) < MaxEvents
    /\ op' = "trigger"
    /\ arg' = r
    /\ triggered' = TRUE
    /\ reason' = Some(r)
    /\ trigger_time' = Some(now)
    /\ IF db_ok
       THEN /\ circuit_breaker_events' = log_circuit_breaker_event(Display(r), None)
            /\ ret' = Ok(<<>>)
       ELSE /\ UNCHANGED circuit_breaker_events
            /\ ret' = Err("DatabaseError")
    /\ UNCHANGED <<now, rpc_healthy, positions, orders, emergency_exits, queries>>
    /\ UNCHANGED cachesim

\* trigger that sets the latch only once the event is logged
TriggerLatchesAfterLog(r, db_ok) ==
    /\ triggered \/ ~db_ok \/ Len(circuit_breaker_events) < MaxEvents
    /\ op' = "trigger"
    /\ arg' = r
    /\ IF triggered
       THEN /\ ret' = Ok(<<>>)
            /\ UNCHANGED <<breaker, circuit_breaker_events>>
       ELSE IF db_ok
            THEN /\ circuit_breaker_events' = log_circuit_breaker_event(Display(r), None)
                 /\ triggered' = TRUE
                 /\ reason' = Some(r)
                 /\ trigger_time' = Some(now)
                 /\ ret' = Ok(<<>>)
            ELSE /\ UNCHANGED <<breaker, circuit_breaker_events>>
                 /\ ret' = Err("DatabaseError")
    /\ UNCHANGED <<now, rpc_healthy, positions, orders, emergency_exits, queries>>
    /\ UNCHANGED cachesim

\* trigger(&mut self, reason, db); db_ok is whether the ledger INSERT succeeds
Trigger(r, db_ok) ==
    /\ triggered \/ ~db_ok \/ Len(circuit_breaker_events) < MaxEvents
    /\ op' = "trigger"
    /\ arg' = r
    /\ IF triggered
       THEN /\ ret' = Ok(<<>>)
            /\ UNCHANGED <<breaker, circuit_breaker_events>>
       ELSE /\ triggered' = TRUE
            /\ reason' = Some(r)
            /\ trigger_time' = Some(now)
            /\ IF db_ok
               THEN /\ circuit_breaker_events' = log_circuit_breaker_event(Display(r), None)
                    /\ ret' = Ok(<<>>)
               ELSE /\ UNCHANGED circuit_breaker_events
                    /\ ret' = Err("DatabaseError")
    /\ UNCHANGED <<now, rpc_healthy, positions, orders, emergency_exits, queries>>
    /\ UNCHANGED cachesim

\* trigger_time.unwrap().elapsed().unwrap_or(0)
Elapsed == IF now >= trigger_time[1] THEN now - trigger_time[1] ELSE 0

\* can_reset that gives the daily loss the one-hour cooldown of the other reasons
can_reset_daily_loss_cools_down ==
    IF ~triggered THEN Ok("Circuit breaker not triggered")
    ELSE IF reason # None /\ reason[1].kind = "DailyLoss"
         THEN IF Elapsed < CooldownSecs
              THEN Err("Must wait 24h before reset")
              ELSE Ok("Manual review required")
    ELSE IF reason # None /\ reason[1].kind = "LeggedPositionStuck"
         THEN Err("Manual confirmation required: Position closed via UI?")
    ELSE IF reason # None /\ reason[1].kind = "RpcFailure"
         THEN Ok("Test both RPCs, require both healthy")
    ELSE IF Elapsed < CooldownSecs
         THEN Err("Cooldown: " \o ToString((CooldownSecs - Elapsed) \div 60)
                  \o " minutes remaining")
         ELSE Ok("Can reset")

\* can_reset that lets a stuck legged position cool down like the other reasons
can_reset_legged_cools_down ==
    IF ~triggered THEN Ok("Circuit breaker not triggered")
    ELSE IF reason # None /\ reason[1].kind = "DailyLoss"
         THEN IF Elapsed < DayLossWaitSecs
              THEN Err("Must wait 24h before reset")
              ELSE Ok("Manual review required")
    ELSE IF reason # None /\ reason[1].kind = "RpcFailure"
         THEN Ok("Test both RPCs, require both healthy")
    ELSE IF Elapsed < CooldownSecs
         THEN Err("Cooldown: " \o ToString((CooldownSecs - Elapsed) \div 60)
                  \o " minutes remaining")
         ELSE Ok("Can reset")

\* can_reset that rounds the remaining minutes up
can_reset_rounds_up ==
    IF ~triggered THEN Ok("Circuit breaker not triggered")
    ELSE IF reason # None /\ reason[1].kind = "DailyLoss"
         THEN IF Elapsed < DayLossWaitSecs
              THEN Err("Must wait 24h before reset")
              ELSE Ok("Manual review required")
    ELSE IF reason # None /\ reason[1].kind = "LeggedPositionStuck"
         THEN Err("Manual confirmation required: Position closed via UI?")
    ELSE IF reason # None /\ reason[1].kind = "RpcFailure"
         THEN Ok("Test both RPCs, require both healthy")
    ELSE IF Elapsed < CooldownSecs
         THEN Err("Cooldown: " \o ToString((CooldownSecs - Elapsed + 59) \div 60)
                  \o " minutes remaining")
         ELSE Ok("Can reset")

can_reset ==
    IF ~triggered THEN Ok("Circuit breaker not triggered")
    ELSE IF reason # None /\ reason[1].kind = "DailyLoss"
         THEN IF Elapsed < DayLossWaitSecs
              THEN Err("Must wait 24h before reset")
              ELSE Ok("Manual review required")
    ELSE IF reason # None /\ reason[1].kind = "LeggedPositionStuck"
         THEN Err("Manual confirmation required: Position closed via UI?")
    ELSE IF reason # None /\ reason[1].kind = "RpcFailure"
         THEN Ok("Test both RPCs, require both healthy")
    ELSE IF Elapsed < CooldownSecs
         THEN Err("Cooldown: " \o ToString((CooldownSecs - Elapsed) \div 60)
                  \o " minutes remaining")
         ELSE Ok("Can reset")

\* can_reset(&self)
CanReset ==
    /\ op' = "can_reset"
    /\ arg' = NoArg
    /\ ret' = can_reset
    /\ UNCHANGED <<breaker, now, rpc_healthy, tables, queries>>
    /\ UNCHANGED cachesim

\* reset that does nothing unless can_reset is ready
ResetWhenReady ==
    /\ op' = "reset"
    /\ arg' = NoArg
    /\ ret' = Unit
    /\ IF can_reset.kind = "Ok"
       THEN triggered' = FALSE /\ reason' = None /\ trigger_time' = None
       ELSE UNCHANGED breaker
    /\ UNCHANGED <<now, rpc_healthy, tables, queries>>
    /\ UNCHANGED cachesim

\* reset that leaves the latch set
ResetKeepsLatch ==
    /\ op' = "reset"
    /\ arg' = NoArg
    /\ ret' = Unit
    /\ reason' = None
    /\ trigger_time' = None
    /\ UNCHANGED <<triggered, now, rpc_healthy, tables, queries>>
    /\ UNCHANGED cachesim

\* reset that forgets to clear the reason
ResetKeepsReason ==
    /\ op' = "reset"
    /\ arg' = NoArg
    /\ ret' = Unit
    /\ triggered' = FALSE
    /\ trigger_time' = None
    /\ UNCHANGED <<reason, now, rpc_healthy, tables, queries>>
    /\ UNCHANGED cachesim

\* reset(&mut self)
Reset ==
    /\ op' = "reset"
    /\ arg' = NoArg
    /\ ret' = Unit
    /\ triggered' = FALSE
    /\ reason' = None
    /\ trigger_time' = None
    /\ UNCHANGED <<now, rpc_healthy, tables, queries>>
    /\ UNCHANGED cachesim

\* time passes
Tick ==
    /\ now + ClockStep <= MaxTicks * ClockStep
    /\ now' = now + ClockStep
    /\ UNCHANGED <<breaker, rpc_healthy, tables, op, arg, ret, queries>>
    /\ UNCHANGED cachesim

\* an RPC endpoint goes down or comes back
RpcHealthChange(e) ==
    /\ rpc_healthy' = [rpc_healthy EXCEPT ![e] = ~@]
    /\ UNCHANGED <<breaker, now, tables, op, arg, ret, queries>>
    /\ UNCHANGED cachesim

Init ==
    /\ InitBase
    /\ now = 0

Next ==
    \/ IsTriggered
    \/ \E r \in Reasons, db_ok \in BOOLEAN : Trigger(r, db_ok)
    \/ CanReset
    \/ Reset
    \/ Tick
    \/ \E e \in {"primary", "secondary"} : RpcHealthChange(e)

Spec == Init /\ [][Next]_vars

(***************************************************************************)
(* The risk gate over the ledger: positions are opened and closed, and     *)
(* signals are validated, on the second day of the ledger's life.          *)
(***************************************************************************)
Strategies == {"WeatherEdge", "SumToOneArb"}

\* the signals of the weather strategy on the weather market, and one signal
\* of the arbitrage strategy on the other market
Signals ==
    {s \in [market_id : Markets, strategy : Strategies, side : {Some("Yes")},
            entry_price : {65}, size : {150, 250},
            edge : {None, Some(30), Some(31)}, confidence : {92}] :
        \/ s.strategy = "WeatherEdge" /\ s.market_id = MarketSeoul
        \/ /\ s.strategy = "SumToOneArb" /\ s.market_id = MarketHex
           /\ s.size = 150 /\ s.edge = None}

Balances == {100, 1000, 3000}

LedgerQueries == 1..4

\* the positions a caller inserts: on the weather market, opened today or a
\* day ago
NewPositions ==
    [id : {None}, market_id : {MarketSeoul}, strategy : {"weather_edge"},
     side : {Some("Yes")}, yes_shares : {100}, no_shares : {0},
     entry_price : {65}, cost : {65}, opened_at : {now - 86400, now},
     closed_at : {None}, pnl : {None}, status : {"open"}]

PnLs == {-150, 1500}

InitRisk ==
    /\ InitBase
    /\ now = 86400

NextRisk ==
    \/ \E pos \in NewPositions, db_ok \in BOOLEAN : InsertPosition(pos, db_ok)
    \/ \E id \in 1..MaxPositions, pnl \in PnLs, db_ok \in BOOLEAN :
           UpdatePositionStatus(id, "closed", Some(pnl), db_ok)
    \/ \E signal \in Signals, balance \in Balances, fail_at \in {0} \cup LedgerQueries :
           ValidateTrade(signal, balance, fail_at)

SpecRisk == InitRisk /\ [][NextRisk]_vars

(***************************************************************************)
(* The ledger on its own: positions of either status are inserted, their   *)
(* status and their shares are updated, the open positions are read back   *)
(* and crash recovery runs, at any point and any number of times.  Inserts *)
(* and reads may fail; the updates succeed.                                *)
(***************************************************************************)
Sides == {Some("Yes"), Some("No")}

Statuses == {"open", "closed"}

\* the positions a caller hands to insert_position: open ones, and closed
\* ones that carry the instant they were closed at and their pnl
LedgerPositions ==
    {pos \in [id : {None}, market_id : {MarketSeoul}, strategy : {"weather_edge"},
              side : Sides, yes_shares : {100}, no_shares : {0},
              entry_price : {65}, cost : {65}, opened_at : {now - 1},
              closed_at : {None, Some(now)}, pnl : {None, Some(1500)},
              status : Statuses] :
        IF pos.status = "open"
        THEN pos.closed_at = None /\ pos.pnl = None
        ELSE pos.closed_at # None /\ pos.pnl # None}

LedgerPnLs == {None, Some(1500)}

NextLedger ==
    \/ \E pos \in LedgerPositions, db_ok \in BOOLEAN : InsertPosition(pos, db_ok)
    \/ \E id \in 1..MaxPositions, status \in Statuses, pnl \in LedgerPnLs :
           UpdatePositionStatus(id, status, pnl, TRUE)
    \/ \E id \in 1..MaxPositions : UpdatePositionShares(id, 0, 40, TRUE)
    \/ \E db_ok \in BOOLEAN : GetOpenPositions(db_ok)
    \/ \E fail_at \in 0..2 : RecoverFromCrash(fail_at)

SpecLedger == InitRisk /\ [][NextLedger]_vars

(***************************************************************************)
(* Every operation of PositionDatabase: those on positions, the two on the *)
(* orders table, crash recovery, the emergency exit log and the event log, *)
(* which the circuit breaker writes when it trips.                         *)
(***************************************************************************)
NextOrders ==
    \/ \E pos \in NewPositions, db_ok \in BOOLEAN : InsertPosition(pos, db_ok)
    \/ \E id \in 1..MaxPositions : UpdatePositionStatus(id, "closed", Some(1500), TRUE)
    \/ \E id \in 1..MaxPositions : UpdatePositionShares(id, 0, 40, TRUE)
    \/ GetOpenPositions(TRUE)
    \/ \E db_ok \in BOOLEAN : GetPendingOrders(db_ok)
    \/ \E id \in 1..MaxPositions, db_ok \in BOOLEAN : MarkOrderFilled(id, db_ok)
    \/ \E fail_at \in 0..2 : RecoverFromCrash(fail_at)
    \/ LogEmergencyExit(Some(1), "stop loss", 150, TRUE)
    \/ Trigger(RpcFailure, TRUE)

SpecOrders == InitRisk /\ [][NextOrders]_vars

(***************************************************************************)
(* Two threads trading on the shared ledger, each on a market of its own:  *)
(* a thread validates a signal and books its position once the gate        *)
(* returned Ok.                                                            *)
(***************************************************************************)
NextTraders ==
    \/ \E t \in Threads, signal \in Signals : TraderValidates(t, signal, 3000)
    \/ \E t \in Threads : TraderInserts(t)

SpecTraders == InitRisk /\ [][NextTraders]_vars

(***************************************************************************)
(* A trading session over a healthy ledger (every read and write           *)
(* succeeds): the breaker trips and is reset, RPC endpoints fail and        *)
(* recover, signals reach the risk gate and emergency exits are logged.    *)
(***************************************************************************)
SessionReasons == {DailyLoss(150), RpcFailure}

NextSession ==
    \/ IsTriggered
    \/ \E r \in SessionReasons : Trigger(r, TRUE)
    \/ CanReset
    \/ Reset
    \/ \E e \in {"primary", "secondary"} : RpcHealthChange(e)
    \/ \E signal \in Signals, balance \in Balances : ValidateTrade(signal, balance, 0)
    \/ /\ triggered
       /\ LogEmergencyExit(None, Display(reason[1]), 150, TRUE)

SpecSession == InitRisk /\ [][NextSession]_vars

(***************************************************************************)
(* The breaker against the clock: a trip at one reading of the clock and   *)
(* can_reset at a later one, around the one-hour and the 24-hour marks.    *)
(***************************************************************************)
ClockReadings ==
    {0, 59, CooldownSecs - 1, CooldownSecs, DayLossWaitSecs - 1, DayLossWaitSecs}

\* SystemTime::now() reads t, later than the reading before
Advance(t) ==
    /\ t > now
    /\ now' = t
    /\ UNCHANGED <<breaker, rpc_healthy, tables, op, arg, ret, queries>>
    /\ UNCHANGED cachesim

NextCooldown ==
    \/ \E r \in Reasons, db_ok \in BOOLEAN : Trigger(r, db_ok)
    \/ CanReset
    \/ Reset
    \/ \E t \in ClockReadings : Advance(t)

SpecCooldown == Init /\ [][NextCooldown]_vars


(***************************************************************************)
(* The price cache under two threads.                                      *)
(***************************************************************************)
NextCache ==
    \/ \E t \in Threads, key \in Keys, price \in Prices, strategy \in Tags :
           CacheInsert(t, key, price, strategy)
    \/ \E t \in Threads, key \in Keys : CacheGet(t, key)
    \/ \E t \in Threads : CacheEvict(t)
    \/ \E t \in Threads : CacheClear(t)
    \/ \E t \in Threads : CacheLen(t)
    \/ \E ms \in InstantReadings : InstantAdvance(ms)

SpecCache == Init /\ [][NextCache]_vars

(***************************************************************************)
(* Two paper trading simulators receiving orders and winnings.             *)
(***************************************************************************)
NextSim ==
    \/ \E sim \in Sims, order \in SimOrders, fill_draw \in FillDraws,
          slip_draw \in SlippageDraws :
           ExecuteOrder(sim, order, fill_draw, slip_draw)
    \/ \E sim \in Sims, amount \in SimAmounts : AddToBalance(sim, amount)

SpecSim == Init /\ [][NextSim]_vars

(***************************************************************************)
(* The weather strategy analysing markets and sizing positions.            *)
(***************************************************************************)
NextWeather ==
    \/ \E in \in AnalysisInputs : AnalyzeWeatherMarket(in)
    \/ \E in \in KellyInputs : CalculateKellyPosition(in)

SpecWeather == Init /\ [][NextWeather]_vars

(***************************************************************************)
(* Market questions being parsed and the weather client's pure functions.  *)
(***************************************************************************)
NextData ==
    \/ \E question \in Questions : ParseWeatherQuestion(question)
    \/ \E city \in CityNames : CityToCoords(city)

SpecData == Init /\ [][NextData]_vars

(***************************************************************************)
(* The weather client turning forecasts into probabilities.                *)
(***************************************************************************)
NextForecast ==
    \/ \E mean_temp \in MeanTemps, threshold \in Thresholds, std_dev \in StdDevs :
           ForecastToProbability(mean_temp, threshold, std_dev)
    \/ \E z \in ZScores : NormalCdf(z)

SpecForecast == Init /\ [][NextForecast]_vars

(***************************************************************************)
(* Properties of the circuit breaker.                                      *)
(***************************************************************************)
TriggerStep == \E r \in Reasons, db_ok \in BOOLEAN : Trigger(r, db_ok)

\* C1: is_triggered() is false initially, true from the return of a trigger
\* until the next reset, false from a reset until the next trigger, and
\* can_reset and is_triggered never change the latch.
C1_LatchFollowsTriggerAndReset ==
    /\ ~triggered
    /\ [][/\ TriggerStep => triggered'
          /\ (triggered /\ ~Reset) => triggered'
          /\ Reset => ~triggered'
          /\ (~triggered /\ ~TriggerStep) => ~triggered'
          /\ (CanReset \/ IsTriggered) => UNCHANGED breaker
          /\ IsTriggered => ret' = Ok(triggered')]_vars

\* a trip was logged, the breaker was reset, and is_triggered() reads false
C1_Witness ==
    /\ op = "is_triggered"
    /\ ret = Ok(FALSE)
    /\ circuit_breaker_events # <<>>

\* C7: trigger(r2) in Tripped(r1, t1) returns Ok, leaves reason r1 and
\* trigger_time t1 and appends no circuit_breaker_events row, so that any
\* number of consecutive triggers has the effect of the first.
C7_TriggerIdempotentInTripped ==
    [][\A r \in Reasons, db_ok \in BOOLEAN :
          (triggered /\ Trigger(r, db_ok)) =>
              /\ ret' = Ok(<<>>)
              /\ UNCHANGED <<triggered, reason, trigger_time, circuit_breaker_events>>]_vars

\* a later trigger with another reason returned Ok and left the first trip
C7_Witness ==
    /\ op = "trigger"
    /\ ret = Ok(<<>>)
    /\ triggered
    /\ reason # Some(arg)
    /\ trigger_time[1] < now

\* C8: triggered implies reason and trigger_time are set; initially and after
\* every reset the breaker is Armed with reason and trigger_time cleared.
C8_TrippedHasReasonAndTime ==
    /\ triggered => (reason # None /\ trigger_time # None)
    /\ op \in {"new", "reset"} =>
           (~triggered /\ reason = None /\ trigger_time = None)

\* the breaker tripped again after the reset of a logged trip
C8_Witness ==
    /\ triggered
    /\ reason # None
    /\ circuit_breaker_events # <<>>
    /\ trigger_time[1] > circuit_breaker_events[1].triggered_at

\* C9: every Armed -> Tripped transition appends exactly one
\* circuit_breaker_events row carrying the display form of the reason, no other
\* step changes the table (so rows and transitions are equal in number), and
\* the rows of circuit_breaker_events and emergency_exits are never modified
\* or deleted.
C9_EveryTripIsLogged ==
    [][/\ (~triggered /\ triggered') =>
              /\ Len(circuit_breaker_events') = Len(circuit_breaker_events) + 1
              /\ SubSeq(circuit_breaker_events', 1, Len(circuit_breaker_events))
                     = circuit_breaker_events
              /\ circuit_breaker_events'[Len(circuit_breaker_events')].reason
                     = Display(reason'[1])
       /\ ~(~triggered /\ triggered') =>
              circuit_breaker_events' = circuit_breaker_events
       /\ Len(emergency_exits') >= Len(emergency_exits)
       /\ SubSeq(emergency_exits', 1, Len(emergency_exits)) = emergency_exits]_vars

\* C10: in Tripped(RpcFailure), can_reset() returns a ready verdict exactly
\* when both RPC endpoints are healthy.
C10_RpcFailureReadyIffBothHealthy ==
    [][(CanReset /\ triggered /\ reason = Some(RpcFailure)) =>
          (ret'.kind = "Ok" <=>
              (rpc_healthy["primary"] /\ rpc_healthy["secondary"]))]_vars

(***************************************************************************)
(* Properties of the risk gate.  After a validate_trade, arg holds what it *)
(* was called with and the ledger is the one it read.                      *)
(***************************************************************************)
\* C2: no validate_trade evaluated between a trigger and the next reset
\* accepts the signal.
C2_NoTradeAcceptedWhileTripped ==
    (op = "validate_trade" /\ triggered) => ret.kind # "Ok"

Pass == [kind |-> "Pass", v |-> <<>>]

\* the ledger query a check of the gate needs: checks 2 to 5 read the ledger
CheckQuery(k) == IF k \in 2..5 THEN k - 1 ELSE 0

QueryNames ==
    <<"count_open_positions", "count_trades_today", "get_daily_pnl", "get_peak_equity">>

\* the eight checks in their order: what check k alone decides
CheckVerdict(k, signal, balance, fail_at) ==
    LET peak == IF get_peak_equity >= balance THEN get_peak_equity ELSE balance
        E(kind, payload) == Err(ValidationError(kind, payload))
    IN
    IF CheckQuery(k) # 0 /\ fail_at = CheckQuery(k) THEN E("DatabaseError", fail_at)
    ELSE CASE k = 1 -> IF signal.size <= balance THEN Pass
                       ELSE E("InsufficientBalance", <<signal.size, balance>>)
           [] k = 2 -> IF count_open_positions < max_open_positions THEN Pass
                       ELSE E("MaxPositionsReached", count_open_positions)
           [] k = 3 -> IF count_trades_today < max_daily_trades THEN Pass
                       ELSE E("DailyTradesExceeded", count_trades_today)
           [] k = 4 -> IF get_daily_pnl >= -max_daily_loss_usd THEN Pass
                       ELSE E("DailyLossLimitHit", get_daily_pnl)
           [] k = 5 -> IF (peak - balance) * 100 <= max_drawdown_pct * peak THEN Pass
                       ELSE E("DrawdownExceeded", <<peak - balance, peak>>)
           [] k = 6 -> IF signal.size <= max_position_size_usd THEN Pass
                       ELSE E("PositionTooLarge", signal.size)
           [] k = 7 -> IF signal.size * 100 <= balance * max_position_pct THEN Pass
                       ELSE E("PositionExceedsPercentage",
                              <<signal.size * 100, balance * max_position_pct>>)
           [] k = 8 -> IF signal.edge # None /\ signal.edge[1] > EdgeSanityPct
                       THEN E("EdgeTooGoodToBeTrue", signal.edge[1])
                       ELSE Pass

Failing(signal, balance, fail_at) ==
    {k \in 1..8 : CheckVerdict(k, signal, balance, fail_at).kind # "Pass"}

\* the last check evaluated: the first failing one, or the eighth
LastEvaluated(signal, balance, fail_at) ==
    LET failing == Failing(signal, balance, fail_at)
    IN IF failing = {} THEN 8 ELSE CHOOSE k \in failing : \A j \in failing : k <= j

ExpectedResult(signal, balance, fail_at) ==
    IF Failing(signal, balance, fail_at) = {} THEN Ok(<<>>)
    ELSE CheckVerdict(LastEvaluated(signal, balance, fail_at), signal, balance, fail_at)

ExpectedQueries(signal, balance, fail_at) ==
    LET n == Cardinality({k \in 1..LastEvaluated(signal, balance, fail_at) :
                              CheckQuery(k) # 0})
    IN [i \in 1..n |-> QueryNames[i]]

\* C3: validate_trade returns the error of the first failing check in the order
\* capital, open positions, daily trades, daily loss, drawdown, absolute cap,
\* percentage cap, edge; it issues the ledger queries of no later check; and
\* it returns Ok only when all eight pass.
C3_FirstFailingCheckInOrder ==
    op = "validate_trade" =>
        /\ ret.kind = ExpectedResult(arg.signal, arg.balance, arg.fail_at).kind
        /\ ret = ExpectedResult(arg.signal, arg.balance, arg.fail_at)
        /\ queries = ExpectedQueries(arg.signal, arg.balance, arg.fail_at)

\* the gate stopped at the daily loss check of a signal that the size caps and
\* the edge check would have refused too, and never read the peak equity
C3_Witness ==
    /\ op = "validate_trade"
    /\ ret.kind = "Err"
    /\ ret.v.kind = "DailyLossLimitHit"
    /\ queries = <<"count_open_positions", "count_trades_today", "get_daily_pnl">>
    /\ arg.signal.size > max_position_size_usd
    /\ arg.signal.edge = Some(31)

\* C4: validate_trade leaves the four tables of the ledger as they were,
\* whatever it returns.
C4_GateNeverWritesLedger ==
    [][op' = "validate_trade" => UNCHANGED tables]_vars

\* a signal was accepted over a ledger that holds positions
C4_Witness ==
    /\ op = "validate_trade"
    /\ ret.kind = "Ok"
    /\ positions # <<>>

OpenRows == {i \in DOMAIN positions : positions[i].status = "open"}

\* C5, as claimed: with max_open_positions positions open, every signal is
\* refused with MaxPositionsReached (the ledger reads succeeding).
C5_AnySignalMaxPositionsReached ==
    (/\ op = "validate_trade"
     /\ arg.fail_at = 0
     /\ Cardinality(OpenRows) = max_open_positions) =>
        (ret.kind = "Err" /\ ret.v.kind = "MaxPositionsReached")

\* C5, amended: with max_open_positions (or more) positions open every signal
\* is refused: with InsufficientBalance when its size exceeds the balance, else
\* with the ledger's error when the count query fails, else with
\* MaxPositionsReached carrying the open count.
C5_FullLedgerRefusesEverySignal ==
    (/\ op = "validate_trade"
     /\ Cardinality(OpenRows) >= max_open_positions) =>
        /\ ret.kind = "Err"
        /\ ret.v.kind =
               IF arg.signal.size > arg.balance THEN "InsufficientBalance"
               ELSE IF arg.fail_at = 1 THEN "DatabaseError"
               ELSE "MaxPositionsReached"
        /\ ret.v.kind = "MaxPositionsReached" => ret.v.v = Cardinality(OpenRows)

\* with max_open_positions open, one of them opened a day ago, a signal was
\* refused with MaxPositionsReached
C5_Witness ==
    /\ op = "validate_trade"
    /\ ret.kind = "Err"
    /\ ret.v.kind = "MaxPositionsReached"
    /\ Cardinality(OpenRows) = max_open_positions
    /\ \E i \in OpenRows : DATE(positions[i].opened_at) # Today

\* C6: a weather signal is rejected whenever the open positions opened today
\* for its market's city number max_positions_per_city_per_day or more.
C6_CorrelationLimitEnforced ==
    \A city \in Cities :
        (/\ op = "validate_trade"
         /\ arg.signal.strategy = "WeatherEdge"
         /\ Like(arg.signal.market_id, city)
         /\ count_positions_for_city_today(city) >= max_positions_per_city_per_day) =>
            ret.kind = "Err"

(***************************************************************************)
(* Properties of can_reset against the clock.                              *)
(***************************************************************************)
SinceTrigger == now - trigger_time[1]

CooldownKinds == {"Drawdown", "FillRate", "Latency", "ApiErrors"}

\* the minutes of a "Cooldown: N minutes remaining" verdict
MinutesLeft(secs_left) == CHOOSE n \in 0..60 : n * 60 <= secs_left /\ secs_left < (n + 1) * 60

\* C11: in Tripped(DailyLoss(_)), can_reset() returns Err whenever fewer than
\* 86400 seconds have elapsed since trigger_time, and the verdict
\* "Manual review required" once at least 86400 seconds have elapsed.
C11_DailyLossWaitsADay ==
    [][(CanReset /\ triggered /\ reason[1].kind = "DailyLoss") =>
          /\ SinceTrigger < 86400 => ret'.kind = "Err"
          /\ SinceTrigger >= 86400 => ret' = Ok("Manual review required")]_vars

\* can_reset() answered "Manual review required" exactly 24 hours after a
\* daily loss trip
C11_Witness ==
    /\ op = "can_reset"
    /\ ret = Ok("Manual review required")
    /\ triggered
    /\ reason[1].kind = "DailyLoss"
    /\ SinceTrigger = 86400

\* C12: in Tripped(LeggedPositionStuck), can_reset() returns Err at every
\* elapsed time.
C12_LeggedPositionNeverReady ==
    [][(CanReset /\ triggered /\ reason = Some(LeggedPositionStuck)) =>
          ret'.kind = "Err"]_vars

\* can_reset() refused a day after a legged position tripped the breaker
C12_Witness ==
    /\ op = "can_reset"
    /\ ret.kind = "Err"
    /\ triggered
    /\ reason = Some(LeggedPositionStuck)
    /\ SinceTrigger >= 86400

\* C13: in Tripped with Drawdown, FillRate, Latency or ApiErrors, can_reset()
\* is ready if and only if at least 3600 seconds have elapsed since
\* trigger_time; before that it returns Err and reports
\* floor((3600 - elapsed) / 60) remaining minutes; when the breaker is not
\* triggered it returns a ready verdict.
C13_CooldownOfAnHour ==
    [][CanReset =>
          /\ (triggered /\ reason[1].kind \in CooldownKinds) =>
                 /\ ret'.kind = "Ok" <=> SinceTrigger >= 3600
                 /\ SinceTrigger < 3600 =>
                        ret' = Err("Cooldown: "
                                   \o ToString(MinutesLeft(3600 - SinceTrigger))
                                   \o " minutes remaining")
          /\ ~triggered => ret'.kind = "Ok"]_vars

\* one second before the hour is over can_reset() reported 0 minutes remaining
C13_Witness ==
    /\ op = "can_reset"
    /\ ret = Err("Cooldown: 0 minutes remaining")
    /\ triggered
    /\ reason[1].kind \in CooldownKinds
    /\ SinceTrigger = 3599

(***************************************************************************)
(* Properties of the ledger.                                               *)
(***************************************************************************)
\* the positions that get_open_positions returns under an id
OpenWithId(list, id) == {k \in DOMAIN list : list[k].id = Some(id)}

\* the eight fields of a position that insert_position stores
SameStoredFields(p, q) ==
    /\ p.market_id = q.market_id
    /\ p.strategy = q.strategy
    /\ p.side = q.side
    /\ p.yes_shares = q.yes_shares
    /\ p.no_shares = q.no_shares
    /\ p.entry_price = q.entry_price
    /\ p.cost = q.cost
    /\ p.opened_at = q.opened_at

\* get_open_positions holds exactly one position under id, with p's fields
ReadsBack(list, id, p) ==
    /\ Cardinality(OpenWithId(list, id)) = 1
    /\ \A k \in OpenWithId(list, id) : SameStoredFields(list[k], p)

StatusUpdateOf(id) ==
    \E status \in Statuses, pnl \in LedgerPnLs : UpdatePositionStatus(id, status, pnl, TRUE)

SharesUpdateOf(id) == UpdatePositionShares(id, 0, 40, TRUE)

\* every position that was open is still read back with its stored fields
StillReadBack ==
    \A before \in {get_open_positions}, after \in {get_open_positions'} :
        \A k \in DOMAIN before :
            \/ StatusUpdateOf(before[k].id[1])
            \/ ReadsBack(after, before[k].id[1], before[k])

\* the same, an update of the position's shares excepted too
StillReadBackUnlessShares ==
    \A before \in {get_open_positions}, after \in {get_open_positions'} :
        \A k \in DOMAIN before :
            \/ StatusUpdateOf(before[k].id[1])
            \/ SharesUpdateOf(before[k].id[1])
            \/ ReadsBack(after, before[k].id[1], before[k])

\* C14, as claimed: for every position p, after insert_position(p) returned
\* id, get_open_positions() holds exactly one position with that id, whose
\* market_id, strategy, side, yes_shares, no_shares, entry_price, cost and
\* opened_at are those of p, and every step other than an update of that
\* position's status keeps it so.
C14_RoundTripOfEveryPosition ==
    [][positions' # positions =>
          /\ \A pos \in LedgerPositions :
                 InsertPosition(pos, TRUE) =>
                     ReadsBack(get_open_positions', ret'.v, pos)
          /\ StillReadBack]_vars

\* C14, amended: for every position p of status 'open', after
\* insert_position(p) returned id, get_open_positions() holds exactly one
\* position with that id, whose eight stored fields are those of p, and every
\* step other than an update of that position's status or of its shares keeps
\* it so; a position inserted with another status is not among the open ones.
C14_RoundTripOfOpenPosition ==
    [][positions' # positions =>
          /\ \A pos \in LedgerPositions :
                 InsertPosition(pos, TRUE) =>
                     IF pos.status = "open"
                     THEN ReadsBack(get_open_positions', ret'.v, pos)
                     ELSE OpenWithId(get_open_positions', ret'.v) = {}
          /\ StillReadBackUnlessShares]_vars

\* get_open_positions() returned two positions, the second one a NO position
\* with the instant it was opened at
C14_Witness ==
    /\ op = "get_open_positions"
    /\ ret.kind = "Ok"
    /\ Len(ret.v) = 2
    /\ ret.v[2].id = Some(2)
    /\ ret.v[2].side = Some("No")
    /\ ret.v[2].opened_at = now - 1
    /\ ret.v[2].yes_shares = 100

\* C15: closing an open position with update_position_status(id, 'closed',
\* Some(x)) removes it from get_open_positions() and count_open_positions()
\* and increases get_daily_pnl() by exactly x, whatever day it was opened on.
C15_CloseAddsPnlToDailyPnl ==
    [][\A id \in 1..MaxPositions, x \in PnLs :
          (/\ UpdatePositionStatus(id, "closed", Some(x), TRUE)
           /\ \E i \in DOMAIN positions :
                  positions[i].id = id /\ positions[i].status = "open") =>
              /\ OpenWithId(get_open_positions', id) = {}
              /\ count_open_positions' = count_open_positions - 1
              /\ get_daily_pnl' = get_daily_pnl + x]_vars

\* C16: a position's closed_at is set if and only if its status is not 'open'.
C16_ClosedAtIffNotOpen ==
    \A i \in DOMAIN positions :
        positions[i].closed_at # None <=> positions[i].status # "open"

\* C17: a position's pnl is non-null if and only if its status is not 'open'.
C17_PnlIffNotOpen ==
    \A i \in DOMAIN positions :
        positions[i].pnl # None <=> positions[i].status # "open"

\* C18: each insert_position returns the id of the row it wrote, strictly
\* greater than every id handed out before; no step removes a row of positions
\* or changes the id of one, so that ids are never reused.
C18_IdsIncreaseRowsStay ==
    [][/\ \A pos \in LedgerPositions :
              InsertPosition(pos, TRUE) =>
                  /\ ret'.kind = "Ok"
                  /\ \A i \in DOMAIN positions : ret'.v > positions[i].id
                  /\ positions'[Len(positions')].id = ret'.v
       /\ Len(positions') >= Len(positions)
       /\ \A i \in DOMAIN positions : positions'[i].id = positions[i].id]_vars

\* the second insert returned id 2 while the first position, by now closed,
\* is still in the table
C18_Witness ==
    /\ op = "insert_position"
    /\ ret = Ok(2)
    /\ Len(positions) = 2
    /\ positions[1].status = "closed"
    /\ positions[1].closed_at # None

Realized == {i \in DOMAIN positions : positions[i].pnl # None}

\* the ways to take the realized positions in opened_at order
OpenedAtOrders ==
    {ord \in [1..Cardinality(Realized) -> Realized] :
        /\ \A a, b \in DOMAIN ord : a # b => ord[a] # ord[b]
        /\ \A a, b \in DOMAIN ord :
               a < b => TextLeq(positions[ord[a]].opened_at, positions[ord[b]].opened_at)}

\* the greatest cumulative sum of pnl over the non-empty prefixes of ord
PeakOfPrefixes(ord) ==
    MaxOf({SumPnl({ord[a] : a \in 1..k}) : k \in DOMAIN ord})

\* C19, as claimed: get_peak_equity() is the maximum, over the prefixes of the
\* positions with non-null pnl taken in opened_at order, of the cumulative sum
\* of their pnl (for some order of the positions opened at the same instant),
\* and 0 when no position has a pnl.
C19_PeakOverPrefixes ==
    IF Realized = {} THEN get_peak_equity = 0
    ELSE \E ord \in OpenedAtOrders : get_peak_equity = PeakOfPrefixes(ord)

\* the stored opened_at texts of the realized positions
Instants == {positions[i].opened_at : i \in Realized}

RECURSIVE PeakOverInstants(_, _)
\* the greatest cumulative sum reached when the realized positions are added
\* instant by instant, those of one instant together; running is the sum so far
PeakOverInstants(left, running) ==
    LET t == CHOOSE u \in left : \A v \in left : TextLeq(u, v)
        sum == running + SumPnl({i \in Realized : positions[i].opened_at = t})
    IN IF left = {t} THEN sum
       ELSE LET rest == PeakOverInstants(left \ {t}, sum)
            IN IF sum >= rest THEN sum ELSE rest

\* C19, amended: get_peak_equity() is the maximum, over the instants at which
\* positions with non-null pnl were opened, of the sum of the pnl of all such
\* positions opened at or before that instant (positions opened at the same
\* instant enter the sum together); it is 0 when no position has a pnl.
C19_PeakOverInstants ==
    get_peak_equity = IF Realized = {} THEN 0 ELSE PeakOverInstants(Instants, 0)

\* two positions opened at the same instant were both closed at a loss of
\* 150: the peak is the sum of both losses
C19_Witness ==
    /\ Cardinality(Realized) = 2
    /\ Cardinality(Instants) = 1
    /\ \A i \in Realized : positions[i].pnl = Some(-150)
    /\ get_peak_equity = -300

\* C20: recover_from_crash changes no position, order, event or exit row, so
\* that running it again leaves the ledger as one run left it, and it returns
\* Ok whenever both of its ledger reads succeed.
C20_RecoveryReadsOnly ==
    [][op' = "recover_from_crash" =>
          /\ UNCHANGED tables
          /\ arg'.fail_at = 0 => ret' = Ok(<<>>)
          /\ (op = "recover_from_crash" /\ arg'.fail_at = arg.fail_at) =>
                 ret' = ret]_vars

\* recovery ran and returned Ok over a ledger with an open position and a
\* closed one
C20_Witness ==
    /\ op = "recover_from_crash"
    /\ ret = Ok(<<>>)
    /\ queries = <<"get_open_positions", "get_pending_orders">>
    /\ Len(get_open_positions) = 1
    /\ Len(positions) = 2

(***************************************************************************)
(* Properties of the price cache.                                          *)
(***************************************************************************)
\* the step is the first map call of a get by a thread that was idle
GetReads ==
    /\ instant' = instant
    /\ op' \in {"cache_get", "cache_get_expired"}
    /\ pc[arg'.thread] = None

\* the step is the second map call of a get: the eviction and the return
GetEvicts ==
    /\ instant' = instant
    /\ op' = "cache_get"
    /\ pc[arg'.thread] # None

\* C21: insert and evict are atomic per key: the eviction of a get(k) that
\* observed an expired entry removes that expired entry only, never a fresh
\* entry that another thread inserted in the meantime.
C21_EvictionSparesFreshEntry ==
    [][\A t \in Threads :
          (CacheEvict(t) /\ pc[t][1] \in DOMAIN cache) =>
              Expired(cache[pc[t][1]])]_vars

\* C22: a get that reads an entry whose time to live is over returns a miss
\* and removes the entry, so that the key is absent afterwards; a get of an
\* absent key misses and changes nothing; an entry disappears only through
\* the eviction of a get of its own key or through clear, never through a
\* tick of the clock or a get of another key; len counts the entries present.
C22_ExpiredEntryEvictedOnRead ==
    [][/\ (GetReads /\ arg'.key \in DOMAIN cache /\ Expired(cache[arg'.key])) =>
              /\ op' = "cache_get_expired"
              /\ pc'[arg'.thread] = Some(arg'.key)
              /\ cache' = cache
       /\ GetEvicts =>
              /\ ret' = Miss
              /\ arg'.key = pc[arg'.thread][1]
              /\ arg'.key \notin DOMAIN cache'
              /\ \A k \in DOMAIN cache \ {arg'.key} :
                     k \in DOMAIN cache' /\ cache'[k] = cache[k]
       /\ (GetReads /\ arg'.key \notin DOMAIN cache) =>
              (ret' = Miss /\ cache' = cache)
       /\ \A k \in DOMAIN cache \ DOMAIN cache' :
              \/ op' = "cache_clear"
              \/ GetEvicts /\ arg'.key = k
       /\ instant' # instant => cache' = cache
       /\ op' = "cache_len" => ret' = Value(Cardinality(DOMAIN cache'))]_vars

\* a get of ARB returned a miss and ARB is gone, while the entry of WEATHER,
\* whose time to live is over too, is still in the map
C22_Witness ==
    /\ op = "cache_get"
    /\ arg.key = "ARB"
    /\ ret = Miss
    /\ pc[arg.thread] = None
    /\ DOMAIN cache = {"WEATHER"}
    /\ Expired(cache["WEATHER"])

\* the time to live that an insert with the tag is to choose, in milliseconds
TtlOfTag(strategy) ==
    IF strategy = "sum_to_one_arb" THEN 500
    ELSE IF strategy = "weather_edge" THEN 300000
    ELSE 60000

\* C23: an insert stores the price with the time to live of its tag (500 ms,
\* 300 s, or 60 s) from now; get(key) returns the price of the most recent
\* insert for the key as long as no more than that time has elapsed since the
\* insert: the entry of the most recent insert stays in the map while its time
\* to live is not over, the key is not re-inserted and the cache is not
\* cleared, and a get that reads it returns its price.
C23_LatestInsertServedWithinTtl ==
    [][/\ \A t \in Threads, key \in Keys, price \in Prices, strategy \in Tags :
              CacheInsert(t, key, price, strategy) =>
                  cache'[key] = [price |-> price, timestamp |-> instant,
                                 ttl |-> TtlOfTag(strategy)]
       /\ \A k \in DOMAIN cache :
              (/\ instant' - cache[k].timestamp <= cache[k].ttl
               /\ op' # "cache_clear"
               /\ ~(op' = "cache_insert" /\ arg'.key = k /\ cache' # cache)) =>
                  /\ k \in DOMAIN cache'
                  /\ cache'[k] = cache[k]
                  /\ (GetReads /\ arg'.key = k) => ret' = Hit(cache[k].price)]_vars

(***************************************************************************)
(* Properties of the paper trading simulator.                              *)
(***************************************************************************)
\* the step is a call of execute_order on simulator sim
Executes(sim) ==
    /\ op' = "execute_order"
    /\ arg'.sim = sim
    /\ Len(calls'[sim]) = Len(calls[sim]) + 1

\* C24: an execute_order call that produces no fill, because the fill-rate
\* draw fails or because the cost exceeds the current balance, returns None
\* and leaves the balance unchanged.
C24_NoFillLeavesBalance ==
    [][\A sim \in Sims : Executes(sim) =>
          LET order == arg'.order
              cost == order.size * ExecutedPrice(order, arg'.slip_draw)
          IN  /\ (~(arg'.fill_draw < fill_rate) \/ cost > sim_balance[sim]) =>
                     ret' = Ok(None)
              /\ ret' = Ok(None) => sim_balance' = sim_balance]_vars

\* an order whose fill-rate draw passed was refused for its cost, which is
\* above the balance, and the balance is the initial one
C24_Witness ==
    /\ op = "execute_order"
    /\ arg.fill_draw < fill_rate
    /\ arg.order.size * ExecutedPrice(arg.order, arg.slip_draw) > sim_balance[arg.sim]
    /\ ret = Ok(None)
    /\ sim_balance[arg.sim] = initial_balance_usd

RECURSIVE SumAdded(_)
\* the sum of the amounts of the add_to_balance calls of a log
SumAdded(log) ==
    IF log = <<>> THEN 0
    ELSE (IF Head(log).op = "add_to_balance" THEN Head(log).input ELSE 0)
         + SumAdded(Tail(log))

RECURSIVE SumFillCosts(_)
\* the sum of the costs of the fills of a log
SumFillCosts(log) ==
    IF log = <<>> THEN 0
    ELSE (IF Head(log).fill # None THEN Head(log).fill[1].cost ELSE 0)
         + SumFillCosts(Tail(log))

\* C25: when execute_order returns a fill, the balance decreases by exactly
\* the cost of the fill, the cost is order.size times the fill price, and the
\* fill carries the market_id and the size of the order; so the initial
\* balance plus the amounts added minus the costs of all fills is the balance.
C25_FillDebitsItsCost ==
    [][/\ \A sim \in Sims : (Executes(sim) /\ ret' # Ok(None)) =>
              LET order == arg'.order
                  fill == ret'.v[1]
              IN  /\ sim_balance'[sim] = sim_balance[sim] - fill.cost
                  /\ fill.cost = order.size * fill.price
                  /\ fill.market_id = order.market_id
                  /\ fill.size = order.size
                  /\ \A other \in Sims \ {sim} :
                         sim_balance'[other] = sim_balance[other]
       /\ \A sim \in Sims :
              initial_balance_usd + SumAdded(calls'[sim]) - SumFillCosts(calls'[sim])
                  = sim_balance'[sim]]_vars

\* after winnings were added, the larger order was filled above its price
C25_Witness ==
    /\ op = "execute_order"
    /\ ret # Ok(None)
    /\ ret.v[1].price > arg.order.price
    /\ ret.v[1].cost > initial_balance_usd
    /\ SumAdded(calls[arg.sim]) > 0
    /\ sim_balance[arg.sim] = initial_balance_usd + SumAdded(calls[arg.sim])
                                  - ret.v[1].cost

\* the inputs of two logs are the same calls in the same order
SameInputs(log1, log2) ==
    /\ Len(log1) = Len(log2)
    /\ \A i \in 1..Len(log1) :
           log1[i].op = log2[i].op /\ log1[i].input = log2[i].input

\* C26: two simulators built from the same configuration and given the same
\* sequence of orders produce the same fill outcomes, the same fill prices and
\* the same balances.
C26_SameOrdersSameOutcomes ==
    \A sim1 \in Sims, sim2 \in Sims :
        SameInputs(calls[sim1], calls[sim2]) =>
            /\ calls[sim1] = calls[sim2]
            /\ sim_balance[sim1] = sim_balance[sim2]

(***************************************************************************)
(* Properties of the weather strategy.                                     *)
(***************************************************************************)
\* the question was parsed and both forecasts were fetched
Analysed ==
    /\ op = "analyze_weather_market"
    /\ arg.parsed.kind = "Ok"
    /\ arg.noaa.kind = "Ok"
    /\ arg.open_meteo.kind = "Ok"

\* the average of the two source probabilities
AverageForecast == (arg.noaa.v.probability + arg.open_meteo.v.probability) \div 2

\* the forecast probability p of the YES outcome: the average for an Above
\* question, one minus the average for a Below question
ForecastP == IF arg.parsed.v = "Above" THEN AverageForecast ELSE Mille - AverageForecast

\* the two source probabilities differ by more than 0.10
SourcesDisagree == Abs(arg.noaa.v.probability - arg.open_meteo.v.probability) > 100

\* C27: analyze_weather_market returns None whenever the two source
\* probabilities differ by more than 0.10 or the edge |p - yes_price| is below
\* min_edge; otherwise, the question parsed and both forecasts fetched, it
\* returns a signal whose edge is |p - yes_price| and is at least min_edge.
C27_SignalOnlyWithAgreementAndEdge ==
    Analysed =>
        IF SourcesDisagree \/ Abs(ForecastP - arg.market.yes_price) < arg.min_edge
        THEN ret = Ok(None)
        ELSE /\ ret.kind = "Ok"
             /\ ret.v # None
             /\ ret.v[1].edge = Some(Abs(ForecastP - arg.market.yes_price))
             /\ ret.v[1].edge[1] >= arg.min_edge

\* forecasts 0.10 apart were accepted and gave a signal whose edge is exactly
\* the minimum edge of 0.05
C27_Witness ==
    /\ Analysed
    /\ Abs(arg.noaa.v.probability - arg.open_meteo.v.probability) = 100
    /\ arg.min_edge = 50
    /\ ret.kind = "Ok"
    /\ ret.v # None
    /\ ret.v[1].edge = Some(50)

\* C28: the side of a signal is Yes, with entry_price = yes_ask, exactly when
\* p > yes_price, and otherwise No with entry_price = no_ask, where p is the
\* average of the two forecasts for an Above question and one minus the
\* average for a Below question.
C28_SideFollowsForecast ==
    (Analysed /\ ret.kind = "Ok" /\ ret.v # None) =>
        IF ForecastP > arg.market.yes_price
        THEN ret.v[1].side = Some("Yes") /\ ret.v[1].entry_price = arg.market.yes_ask
        ELSE ret.v[1].side = Some("No") /\ ret.v[1].entry_price = arg.market.no_ask

\* a Below question whose average forecast is under the YES price gave a
\* signal on Yes at the YES ask
C28_Witness ==
    /\ Analysed
    /\ arg.parsed.v = "Below"
    /\ AverageForecast < arg.market.yes_price
    /\ ret.kind = "Ok"
    /\ ret.v # None
    /\ ret.v[1].side = Some("Yes")
    /\ ret.v[1].entry_price = arg.market.yes_ask

\* C29: for capital >= 0, probabilities in [0, 1] and max_pct >= 0 the result
\* of calculate_kelly_position lies in [0, capital * max_pct], and it is 0
\* when market_price is 0 or 1.
C29_KellyWithinCap ==
    op = "calculate_kelly_position" =>
        /\ ~IsNaN(ret.v)
        /\ ~Gt(Zero, ret.v)
        /\ ~Gt(ret.v, F64(arg.capital * arg.max_position_pct, 100))
        /\ arg.market_price \in {0, 100} => ret.v = Zero

\* a market priced at 1 with capital and a cap to spend is sized at 0
C29_Witness ==
    /\ op = "calculate_kelly_position"
    /\ arg.capital = 2000
    /\ arg.max_position_pct = 10
    /\ arg.market_price = 100
    /\ arg.forecast_prob = 50
    /\ ret = Value(Zero)

\* min(capital * max(0, 0.25 f*), capital * max_pct) with f* = (b p - (1 - p)) / b
\* and b = (1 - q) / q
KellyClosedForm(capital, p, q, max_pct) ==
    LET b == Div(Sub(One, q), q)
        f == Div(Sub(Mul(b, p), Sub(One, p)), b)
    IN  Min(Mul(capital, Max(Zero, Mul(F64(1, 4), f))), Mul(capital, max_pct))

C34_FailedLogLeavesTripUnrecorded ==
    [][/\ \A r \in Reasons : (~triggered /\ Trigger(r, FALSE)) => ret'.kind = "Err"
       /\ (~triggered /\ op' = "trigger" /\ ret'.kind = "Err") =>
              /\ triggered'
              /\ reason' = Some(arg')
              /\ trigger_time' = Some(now)
              /\ circuit_breaker_events' = circuit_breaker_events
       /\ triggered =>
              /\ circuit_breaker_events' = circuit_breaker_events
              /\ TriggerStep => ret' = Ok(<<>>)]_vars

\* the retry of a trigger whose log write failed returned Ok at a later
\* instant, and the ledger holds no event
C34_Witness ==
    /\ op = "trigger"
    /\ ret = Ok(<<>>)
    /\ triggered
    /\ reason = Some(arg)
    /\ trigger_time[1] < now
    /\ circuit_breaker_events = <<>>

\* C35: reset() returns the breaker to Armed from every Tripped state,
\* whatever can_reset() returns in that state.
C35_ResetIgnoresPolicy ==
    [][(triggered /\ op' = "reset") =>
          (~triggered' /\ reason' = None /\ trigger_time' = None)]_vars

\* a breaker that had tripped on a legged position at this very instant, for
\* which can_reset is never ready, is Armed after a reset
C35_Witness ==
    /\ op = "reset"
    /\ ~triggered
    /\ circuit_breaker_events # <<>>
    /\ circuit_breaker_events[1].reason = Display(LeggedPositionStuck)
    /\ now = 0

(***************************************************************************)
(* Further properties of the ledger.                                       *)
(***************************************************************************)
\* C37: no ledger operation inserts a row into the orders table: in every
\* reachable state the table is empty, get_pending_orders() returns the empty
\* list, mark_order_filled has changed no row, and recover_from_crash reads
\* zero pending orders.
C37_OrdersTableStaysEmpty ==
    /\ orders = <<>>
    /\ get_pending_orders = <<>>
    /\ (op = "get_pending_orders" /\ ret.kind = "Ok") => ret.v = <<>>

\* with positions in the ledger, mark_order_filled returned Ok on an empty
\* orders table
C37_Witness ==
    /\ op = "mark_order_filled"
    /\ ret = Ok(<<>>)
    /\ Len(positions) = MaxPositions
    /\ emergency_exits # <<>>
    /\ orders = <<>>

(***************************************************************************)
(* Further properties of the paper trading simulator.                      *)
(***************************************************************************)
\* C38: starting from a non-negative initial balance, after any sequence of
\* execute_order calls with non-negative price and size and add_to_balance
\* calls with non-negative amounts, the balance is never negative.
C38_BalanceNeverNegative ==
    \A sim \in Sims : sim_balance[sim] >= 0

\* two fills spent the whole balance and the next order, whose fill-rate draw
\* passed, was refused
C38_Witness ==
    /\ op = "execute_order"
    /\ arg.fill_draw < fill_rate
    /\ ret = Ok(None)
    /\ sim_balance[arg.sim] = 0
    /\ SumFillCosts(calls[arg.sim]) = initial_balance_usd

(***************************************************************************)
(* Further properties of the weather strategy.                             *)
(***************************************************************************)
\* the branch calculate_kelly_position takes on (forecast_prob, market_price):
\* it bets YES when forecast_prob > market_price
KellyBetsYes(forecast_prob, market_price) == Gt(forecast_prob, market_price)

\* the price calculate_kelly_position computes the odds from
KellyBetPrice(forecast_prob, market_price) ==
    IF KellyBetsYes(forecast_prob, market_price) THEN market_price
    ELSE Sub(One, market_price)

\* C36: for every signal returned by analyze_weather_market the size is
\* computed for the bet of the signal: calculate_kelly_position, called with
\* the forecast probability and the entry price, takes its YES branch exactly
\* when the side of the signal is Yes, and the price it computes the odds from
\* is the entry_price of the signal.
C36_SizeIsForTheBetOfTheSignal ==
    (Analysed /\ ret.kind = "Ok" /\ ret.v # None) =>
        LET signal == ret.v[1]
            forecast_prob == OfMille(ForecastP)
            entry_price == OfMille(signal.entry_price)
        IN  /\ KellyBetsYes(forecast_prob, entry_price) <=> signal.side = Some("Yes")
            /\ KellyBetPrice(forecast_prob, entry_price) = entry_price
            /\ signal.size = calculate_kelly_position(
                                 F64(arg.capital, 1), forecast_prob, entry_price,
                                 OfMille(arg.max_position_pct))

(***************************************************************************)
(* Further properties of the risk gate.                                    *)
(***************************************************************************)
\* C33: when every position is inserted only after validate_trade returned Ok
\* for its signal, the number of open positions never exceeds
\* max_open_positions, also when several validations complete before their
\* positions are inserted.
C33_OpenPositionsWithinLimit ==
    count_open_positions <= max_open_positions


(***************************************************************************)
(* Properties of the question parser and the weather client.               *)
(***************************************************************************)
\* the unit the regex matched after the number is Fahrenheit
MatchedFahrenheit(question) ==
    LET u == SpaceEnd(question, captures(question)[1].end)
    IN \/ StartsAt(question, u, <<DegreeSign, "F">>)
       \/ StartsAt(question, u, <<"d", "e", "g", "r", "e", "e", "s", " ", "F">>)

\* the number the regex captured, as written
MatchedNumber(question) ==
    parse_f64(question, captures(question)[1].start, captures(question)[1].end)

\* C31: parse_weather_question converts the threshold from Fahrenheit to
\* Celsius, (F - 32) * 5 / 9, exactly when the unit matched with the
\* extracted number is a Fahrenheit one, and otherwise returns the number as
\* written.
C31_ConvertsByUnitOfMatch ==
    op = "parse_weather_question" /\ ret.kind = "Ok" =>
        ret.v.threshold =
            IF MatchedFahrenheit(arg)
            THEN Div(Mul(Sub(MatchedNumber(arg), F64(32, 1)), F64(5, 1)), F64(9, 1))
            ELSE MatchedNumber(arg)

\* C39: every city parse_weather_question returns is a key of city_to_coords,
\* so the lookup after a successful parse never fails on an unknown city.
C39_ParsedCityHasCoords ==
    op = "parse_weather_question" /\ ret.kind = "Ok" =>
        city_to_coords(ret.v.city).kind = "Ok"

C39_Witness ==
    /\ op = "parse_weather_question"
    /\ ret.kind = "Ok"
    /\ ret.v.city = "New York"
    /\ city_to_coords(ret.v.city) = Ok(Coordinates(407128, -740060))

\* C32: for every mean, threshold and std_dev > 0, forecast_to_probability
\* returns 1 - normal_cdf((threshold - mean) / std_dev) clamped to [0, 1];
\* normal_cdf never decreases as z grows, so the probability never increases
\* when the threshold is raised.
C32_ProbabilityFallsWithThreshold ==
    /\ op = "forecast_to_probability" =>
           LET q == FixedOne - normal_cdf(FixedDiv(arg.threshold - arg.mean_temp, arg.std_dev))
           IN /\ ret.v = (IF q < 0 THEN 0 ELSE IF q > FixedOne THEN FixedOne ELSE q)
              /\ \A higher \in Thresholds :
                     higher > arg.threshold =>
                         forecast_to_probability(arg.mean_temp, higher, arg.std_dev) <= ret.v
    /\ op = "normal_cdf" =>
           \A z \in ZScores : z > arg => normal_cdf(z) >= ret.v

\* the forecast of the test: mean 16, threshold 15, spread 2.5 gives about 0.655
C32_Witness ==
    /\ op = "forecast_to_probability"
    /\ arg = [mean_temp |-> 16 * FixedOne, threshold |-> 15 * FixedOne, std_dev |-> 25000]
    /\ ret.v > 6500 /\ ret.v < 6600
    /\ forecast_to_probability(16 * FixedOne, 16 * FixedOne, 25000) < ret.v

====
